---- MODULE Spec2Model ----
(***************************************************************************)
(* Model of astrbot_plugin_todo's time-expression parser (time_parser.py). *)
(*                                                                         *)
(* A text is a sequence of characters.  Every character is a one-element   *)
(* string: the blank and the printable ASCII characters stand for          *)
(* themselves ("3", ":", "-", " "), and every other character is written   *)
(* as its code point in at least four hexadecimal digits: "U+660E" for 明, *)
(* "U+0009" for the tab, "U+000A" for the newline, "U+3000" for the        *)
(* ideographic space, "U+FF13" for the fullwidth digit three.              *)
(* The record Ch names the Chinese characters the parser's tables and      *)
(* regular expressions mention:                                            *)
(*   ling 零  ling0 〇  yi 一  yiF 壹  er 二  liang 两  erF 贰  san 三     *)
(*   sanF 叁  si 四  siF 肆  wu 五  wuF 伍  liu 六  liuF 陆  qi 七         *)
(*   qiF 柒  ba 八  baF 捌  jiu 九  jiuF 玖  shi 十  shiF 拾  bai 百       *)
(*   nian 年  yue 月  ri 日  hao 号  tian 天  hou 后  da 大  ming 明       *)
(*   jin 今  xia 下  zhou 周  zhe 这  ben 本  dian 点  shiH 时  fen 分     *)
(*   ban 半  ge 个  xiao 小  zhong 钟  lingC 凌  chen 晨  zao 早           *)
(*   shang 上  wuN 午  zhongM 中  bang 傍  wan 晚                          *)
(*                                                                         *)
(* A value returned by the code is a record with a field kind:             *)
(*   "datetime" (year .. microsecond), "hm" (hour, minute: the tuple of    *)
(*   _parse_time_of_day), "None", or "ValueError" / "OverflowError" when   *)
(*   the call ends by raising that exception.                              *)
(***************************************************************************)
EXTENDS Integers, Sequences, FiniteSets, TLC

VARIABLES op, text, base, result, prev,
          clock, report_time, interval, pc, wait, fails, cancelled, tasks, terminating, cancel_calls,
          now, next_id, store_keys, data, file, ret, cleared, rc, sent, tried

parserVars == <<op, text, base, result, prev>>

schedVars == <<clock, report_time, interval, pc, wait, fails, cancelled, tasks, terminating, cancel_calls>>

storeVars == <<now, next_id, store_keys, data, file, ret, cleared, rc, sent, tried>>

vars == <<parserVars, schedVars, storeVars>>

Ch ==
  [ ling |-> "U+96F6", ling0 |-> "U+3007", yi |-> "U+4E00", yiF |-> "U+58F9",
    er |-> "U+4E8C", liang |-> "U+4E24", erF |-> "U+8D30", san |-> "U+4E09",
    sanF |-> "U+53C1", si |-> "U+56DB", siF |-> "U+8086", wu |-> "U+4E94",
    wuF |-> "U+4F0D", liu |-> "U+516D", liuF |-> "U+9646", qi |-> "U+4E03",
    qiF |-> "U+67D2", ba |-> "U+516B", baF |-> "U+634C", jiu |-> "U+4E5D",
    jiuF |-> "U+7396", shi |-> "U+5341", shiF |-> "U+62FE", bai |-> "U+767E",
    nian |-> "U+5E74", yue |-> "U+6708", ri |-> "U+65E5", hao |-> "U+53F7",
    tian |-> "U+5929", hou |-> "U+540E", da |-> "U+5927", ming |-> "U+660E",
    jin |-> "U+4ECA", xia |-> "U+4E0B", zhou |-> "U+5468", zhe |-> "U+8FD9",
    ben |-> "U+672C", dian |-> "U+70B9", shiH |-> "U+65F6", fen |-> "U+5206",
    ban |-> "U+534A", ge |-> "U+4E2A", xiao |-> "U+5C0F", zhong |-> "U+949F",
    lingC |-> "U+51CC", chen |-> "U+6668", zao |-> "U+65E9", shang |-> "U+4E0A",
    wuN |-> "U+5348", zhongM |-> "U+4E2D", bang |-> "U+508D", wan |-> "U+665A", yiY |-> "U+5DF2",
    yu |-> "U+903E", qiD |-> "U+671F", gang |-> "U+521A", dao |-> "U+5230" ]

(***************************************************************************)
(* Returned values.                                                        *)
(***************************************************************************)
None == [kind |-> "None"]

ValueError == [kind |-> "ValueError"]

OverflowError == [kind |-> "OverflowError"]

IsDatetime(v) == v.kind = "datetime"

IsRaise(v) == v.kind \in {"ValueError", "OverflowError"}

\* cn_to_int returns an int or None, or raises ValueError at line 43; None is
\* modelled by -1 and the raised ValueError by -2 (no int it returns is
\* negative).
NoInt == -1

IntValueError == -2

(***************************************************************************)
(* Characters and substrings (str, re).                                    *)
(***************************************************************************)
\* The decimal digits of Unicode 14 (the characters str.isdecimal accepts, the
\* \d of re, what int() converts), one row per script; the digit of value d
\* is the element d + 1 of its row.
DecimalDigits ==
  << <<"0", "1", "2", "3", "4", "5", "6", "7", "8", "9">>,
     <<"U+0660", "U+0661", "U+0662", "U+0663", "U+0664", "U+0665", "U+0666", "U+0667", "U+0668", "U+0669">>,
     <<"U+06F0", "U+06F1", "U+06F2", "U+06F3", "U+06F4", "U+06F5", "U+06F6", "U+06F7", "U+06F8", "U+06F9">>,
     <<"U+07C0", "U+07C1", "U+07C2", "U+07C3", "U+07C4", "U+07C5", "U+07C6", "U+07C7", "U+07C8", "U+07C9">>,
     <<"U+0966", "U+0967", "U+0968", "U+0969", "U+096A", "U+096B", "U+096C", "U+096D", "U+096E", "U+096F">>,
     <<"U+09E6", "U+09E7", "U+09E8", "U+09E9", "U+09EA", "U+09EB", "U+09EC", "U+09ED", "U+09EE", "U+09EF">>,
     <<"U+0A66", "U+0A67", "U+0A68", "U+0A69", "U+0A6A", "U+0A6B", "U+0A6C", "U+0A6D", "U+0A6E", "U+0A6F">>,
     <<"U+0AE6", "U+0AE7", "U+0AE8", "U+0AE9", "U+0AEA", "U+0AEB", "U+0AEC", "U+0AED", "U+0AEE", "U+0AEF">>,
     <<"U+0B66", "U+0B67", "U+0B68", "U+0B69", "U+0B6A", "U+0B6B", "U+0B6C", "U+0B6D", "U+0B6E", "U+0B6F">>,
     <<"U+0BE6", "U+0BE7", "U+0BE8", "U+0BE9", "U+0BEA", "U+0BEB", "U+0BEC", "U+0BED", "U+0BEE", "U+0BEF">>,
     <<"U+0C66", "U+0C67", "U+0C68", "U+0C69", "U+0C6A", "U+0C6B", "U+0C6C", "U+0C6D", "U+0C6E", "U+0C6F">>,
     <<"U+0CE6", "U+0CE7", "U+0CE8", "U+0CE9", "U+0CEA", "U+0CEB", "U+0CEC", "U+0CED", "U+0CEE", "U+0CEF">>,
     <<"U+0D66", "U+0D67", "U+0D68", "U+0D69", "U+0D6A", "U+0D6B", "U+0D6C", "U+0D6D", "U+0D6E", "U+0D6F">>,
     <<"U+0DE6", "U+0DE7", "U+0DE8", "U+0DE9", "U+0DEA", "U+0DEB", "U+0DEC", "U+0DED", "U+0DEE", "U+0DEF">>,
     <<"U+0E50", "U+0E51", "U+0E52", "U+0E53", "U+0E54", "U+0E55", "U+0E56", "U+0E57", "U+0E58", "U+0E59">>,
     <<"U+0ED0", "U+0ED1", "U+0ED2", "U+0ED3", "U+0ED4", "U+0ED5", "U+0ED6", "U+0ED7", "U+0ED8", "U+0ED9">>,
     <<"U+0F20", "U+0F21", "U+0F22", "U+0F23", "U+0F24", "U+0F25", "U+0F26", "U+0F27", "U+0F28", "U+0F29">>,
     <<"U+1040", "U+1041", "U+1042", "U+1043", "U+1044", "U+1045", "U+1046", "U+1047", "U+1048", "U+1049">>,
     <<"U+1090", "U+1091", "U+1092", "U+1093", "U+1094", "U+1095", "U+1096", "U+1097", "U+1098", "U+1099">>,
     <<"U+17E0", "U+17E1", "U+17E2", "U+17E3", "U+17E4", "U+17E5", "U+17E6", "U+17E7", "U+17E8", "U+17E9">>,
     <<"U+1810", "U+1811", "U+1812", "U+1813", "U+1814", "U+1815", "U+1816", "U+1817", "U+1818", "U+1819">>,
     <<"U+1946", "U+1947", "U+1948", "U+1949", "U+194A", "U+194B", "U+194C", "U+194D", "U+194E", "U+194F">>,
     <<"U+19D0", "U+19D1", "U+19D2", "U+19D3", "U+19D4", "U+19D5", "U+19D6", "U+19D7", "U+19D8", "U+19D9">>,
     <<"U+1A80", "U+1A81", "U+1A82", "U+1A83", "U+1A84", "U+1A85", "U+1A86", "U+1A87", "U+1A88", "U+1A89">>,
     <<"U+1A90", "U+1A91", "U+1A92", "U+1A93", "U+1A94", "U+1A95", "U+1A96", "U+1A97", "U+1A98", "U+1A99">>,
     <<"U+1B50", "U+1B51", "U+1B52", "U+1B53", "U+1B54", "U+1B55", "U+1B56", "U+1B57", "U+1B58", "U+1B59">>,
     <<"U+1BB0", "U+1BB1", "U+1BB2", "U+1BB3", "U+1BB4", "U+1BB5", "U+1BB6", "U+1BB7", "U+1BB8", "U+1BB9">>,
     <<"U+1C40", "U+1C41", "U+1C42", "U+1C43", "U+1C44", "U+1C45", "U+1C46", "U+1C47", "U+1C48", "U+1C49">>,
     <<"U+1C50", "U+1C51", "U+1C52", "U+1C53", "U+1C54", "U+1C55", "U+1C56", "U+1C57", "U+1C58", "U+1C59">>,
     <<"U+A620", "U+A621", "U+A622", "U+A623", "U+A624", "U+A625", "U+A626", "U+A627", "U+A628", "U+A629">>,
     <<"U+A8D0", "U+A8D1", "U+A8D2", "U+A8D3", "U+A8D4", "U+A8D5", "U+A8D6", "U+A8D7", "U+A8D8", "U+A8D9">>,
     <<"U+A900", "U+A901", "U+A902", "U+A903", "U+A904", "U+A905", "U+A906", "U+A907", "U+A908", "U+A909">>,
     <<"U+A9D0", "U+A9D1", "U+A9D2", "U+A9D3", "U+A9D4", "U+A9D5", "U+A9D6", "U+A9D7", "U+A9D8", "U+A9D9">>,
     <<"U+A9F0", "U+A9F1", "U+A9F2", "U+A9F3", "U+A9F4", "U+A9F5", "U+A9F6", "U+A9F7", "U+A9F8", "U+A9F9">>,
     <<"U+AA50", "U+AA51", "U+AA52", "U+AA53", "U+AA54", "U+AA55", "U+AA56", "U+AA57", "U+AA58", "U+AA59">>,
     <<"U+ABF0", "U+ABF1", "U+ABF2", "U+ABF3", "U+ABF4", "U+ABF5", "U+ABF6", "U+ABF7", "U+ABF8", "U+ABF9">>,
     <<"U+FF10", "U+FF11", "U+FF12", "U+FF13", "U+FF14", "U+FF15", "U+FF16", "U+FF17", "U+FF18", "U+FF19">>,
     <<"U+104A0", "U+104A1", "U+104A2", "U+104A3", "U+104A4", "U+104A5", "U+104A6", "U+104A7", "U+104A8", "U+104A9">>,
     <<"U+10D30", "U+10D31", "U+10D32", "U+10D33", "U+10D34", "U+10D35", "U+10D36", "U+10D37", "U+10D38", "U+10D39">>,
     <<"U+11066", "U+11067", "U+11068", "U+11069", "U+1106A", "U+1106B", "U+1106C", "U+1106D", "U+1106E", "U+1106F">>,
     <<"U+110F0", "U+110F1", "U+110F2", "U+110F3", "U+110F4", "U+110F5", "U+110F6", "U+110F7", "U+110F8", "U+110F9">>,
     <<"U+11136", "U+11137", "U+11138", "U+11139", "U+1113A", "U+1113B", "U+1113C", "U+1113D", "U+1113E", "U+1113F">>,
     <<"U+111D0", "U+111D1", "U+111D2", "U+111D3", "U+111D4", "U+111D5", "U+111D6", "U+111D7", "U+111D8", "U+111D9">>,
     <<"U+112F0", "U+112F1", "U+112F2", "U+112F3", "U+112F4", "U+112F5", "U+112F6", "U+112F7", "U+112F8", "U+112F9">>,
     <<"U+11450", "U+11451", "U+11452", "U+11453", "U+11454", "U+11455", "U+11456", "U+11457", "U+11458", "U+11459">>,
     <<"U+114D0", "U+114D1", "U+114D2", "U+114D3", "U+114D4", "U+114D5", "U+114D6", "U+114D7", "U+114D8", "U+114D9">>,
     <<"U+11650", "U+11651", "U+11652", "U+11653", "U+11654", "U+11655", "U+11656", "U+11657", "U+11658", "U+11659">>,
     <<"U+116C0", "U+116C1", "U+116C2", "U+116C3", "U+116C4", "U+116C5", "U+116C6", "U+116C7", "U+116C8", "U+116C9">>,
     <<"U+11730", "U+11731", "U+11732", "U+11733", "U+11734", "U+11735", "U+11736", "U+11737", "U+11738", "U+11739">>,
     <<"U+118E0", "U+118E1", "U+118E2", "U+118E3", "U+118E4", "U+118E5", "U+118E6", "U+118E7", "U+118E8", "U+118E9">>,
     <<"U+11950", "U+11951", "U+11952", "U+11953", "U+11954", "U+11955", "U+11956", "U+11957", "U+11958", "U+11959">>,
     <<"U+11C50", "U+11C51", "U+11C52", "U+11C53", "U+11C54", "U+11C55", "U+11C56", "U+11C57", "U+11C58", "U+11C59">>,
     <<"U+11D50", "U+11D51", "U+11D52", "U+11D53", "U+11D54", "U+11D55", "U+11D56", "U+11D57", "U+11D58", "U+11D59">>,
     <<"U+11DA0", "U+11DA1", "U+11DA2", "U+11DA3", "U+11DA4", "U+11DA5", "U+11DA6", "U+11DA7", "U+11DA8", "U+11DA9">>,
     <<"U+16A60", "U+16A61", "U+16A62", "U+16A63", "U+16A64", "U+16A65", "U+16A66", "U+16A67", "U+16A68", "U+16A69">>,
     <<"U+16AC0", "U+16AC1", "U+16AC2", "U+16AC3", "U+16AC4", "U+16AC5", "U+16AC6", "U+16AC7", "U+16AC8", "U+16AC9">>,
     <<"U+16B50", "U+16B51", "U+16B52", "U+16B53", "U+16B54", "U+16B55", "U+16B56", "U+16B57", "U+16B58", "U+16B59">>,
     <<"U+1D7CE", "U+1D7CF", "U+1D7D0", "U+1D7D1", "U+1D7D2", "U+1D7D3", "U+1D7D4", "U+1D7D5", "U+1D7D6", "U+1D7D7">>,
     <<"U+1D7D8", "U+1D7D9", "U+1D7DA", "U+1D7DB", "U+1D7DC", "U+1D7DD", "U+1D7DE", "U+1D7DF", "U+1D7E0", "U+1D7E1">>,
     <<"U+1D7E2", "U+1D7E3", "U+1D7E4", "U+1D7E5", "U+1D7E6", "U+1D7E7", "U+1D7E8", "U+1D7E9", "U+1D7EA", "U+1D7EB">>,
     <<"U+1D7EC", "U+1D7ED", "U+1D7EE", "U+1D7EF", "U+1D7F0", "U+1D7F1", "U+1D7F2", "U+1D7F3", "U+1D7F4", "U+1D7F5">>,
     <<"U+1D7F6", "U+1D7F7", "U+1D7F8", "U+1D7F9", "U+1D7FA", "U+1D7FB", "U+1D7FC", "U+1D7FD", "U+1D7FE", "U+1D7FF">>,
     <<"U+1E140", "U+1E141", "U+1E142", "U+1E143", "U+1E144", "U+1E145", "U+1E146", "U+1E147", "U+1E148", "U+1E149">>,
     <<"U+1E2F0", "U+1E2F1", "U+1E2F2", "U+1E2F3", "U+1E2F4", "U+1E2F5", "U+1E2F6", "U+1E2F7", "U+1E2F8", "U+1E2F9">>,
     <<"U+1E950", "U+1E951", "U+1E952", "U+1E953", "U+1E954", "U+1E955", "U+1E956", "U+1E957", "U+1E958", "U+1E959">>,
     <<"U+1FBF0", "U+1FBF1", "U+1FBF2", "U+1FBF3", "U+1FBF4", "U+1FBF5", "U+1FBF6", "U+1FBF7", "U+1FBF8", "U+1FBF9">> >>

AsciiDigits == {"0", "1", "2", "3", "4", "5", "6", "7", "8", "9"}

DigitChars == UNION {{DecimalDigits[r][k] : k \in 1..10} : r \in DOMAIN DecimalDigits}

\* the characters str.isdigit accepts that are no decimal digits (superscripts,
\* circled digits, ...): int() raises ValueError on them
OtherDigitChars ==
  {
    "U+00B2", "U+00B3", "U+00B9", "U+1369", "U+136A", "U+136B", "U+136C",
    "U+136D", "U+136E", "U+136F", "U+1370", "U+1371", "U+19DA", "U+2070",
    "U+2074", "U+2075", "U+2076", "U+2077", "U+2078", "U+2079", "U+2080",
    "U+2081", "U+2082", "U+2083", "U+2084", "U+2085", "U+2086", "U+2087",
    "U+2088", "U+2089", "U+2460", "U+2461", "U+2462", "U+2463", "U+2464",
    "U+2465", "U+2466", "U+2467", "U+2468", "U+2474", "U+2475", "U+2476",
    "U+2477", "U+2478", "U+2479", "U+247A", "U+247B", "U+247C", "U+2488",
    "U+2489", "U+248A", "U+248B", "U+248C", "U+248D", "U+248E", "U+248F",
    "U+2490", "U+24EA", "U+24F5", "U+24F6", "U+24F7", "U+24F8", "U+24F9",
    "U+24FA", "U+24FB", "U+24FC", "U+24FD", "U+24FF", "U+2776", "U+2777",
    "U+2778", "U+2779", "U+277A", "U+277B", "U+277C", "U+277D", "U+277E",
    "U+2780", "U+2781", "U+2782", "U+2783", "U+2784", "U+2785", "U+2786",
    "U+2787", "U+2788", "U+278A", "U+278B", "U+278C", "U+278D", "U+278E",
    "U+278F", "U+2790", "U+2791", "U+2792", "U+10A40", "U+10A41", "U+10A42",
    "U+10A43", "U+10E60", "U+10E61", "U+10E62", "U+10E63", "U+10E64",
    "U+10E65", "U+10E66", "U+10E67", "U+10E68", "U+11052", "U+11053",
    "U+11054", "U+11055", "U+11056", "U+11057", "U+11058", "U+11059",
    "U+1105A", "U+1F100", "U+1F101", "U+1F102", "U+1F103", "U+1F104",
    "U+1F105", "U+1F106", "U+1F107", "U+1F108", "U+1F109", "U+1F10A" }

\* int(c) of a decimal digit c
DigitValue ==
  [c \in DigitChars |->
     CHOOSE v \in 0..9 : \E r \in DOMAIN DecimalDigits : DecimalDigits[r][v + 1] = c]

\* the characters str.isspace accepts: what str.strip and str.split take as
\* blanks and \s of re matches
SpaceChars ==
  {
    "U+0009", "U+000A", "U+000B", "U+000C", "U+000D", "U+001C", "U+001D",
    "U+001E", "U+001F", " ", "U+0085", "U+00A0", "U+1680", "U+2000",
    "U+2001", "U+2002", "U+2003", "U+2004", "U+2005", "U+2006", "U+2007",
    "U+2008", "U+2009", "U+200A", "U+2028", "U+2029", "U+202F", "U+205F",
    "U+3000" }

\* sys.get_int_max_str_digits(): the most digits that int() converts, CPython's
\* default
MaxStrDigits == 4300

\* int(s) for a sequence of decimal digits: ValueError (IntValueError) for
\* more than MaxStrDigits digits, leading zeros counted
RECURSIVE IntOf(_)
IntOf(s) ==
  IF Len(s) > MaxStrDigits THEN IntValueError
  ELSE IF s = <<>> THEN 0
  ELSE 10 * IntOf(SubSeq(s, 1, Len(s) - 1)) + DigitValue[s[Len(s)]]

\* the character at position i, or "" past the end
At(t, i) == IF i >= 1 /\ i <= Len(t) THEN t[i] ELSE ""

\* length of the longest run of characters of S that starts at position i
Run(t, i, S) ==
  IF At(t, i) \notin S THEN 0
  ELSE CHOOSE n \in 1..(Len(t) - i + 1) :
         At(t, i + n) \notin S /\ \A k \in 1..(n - 1) : At(t, i + k) \in S

\* t[i:] starts with the literal lit
StartsAt(t, i, lit) ==
  /\ i + Len(lit) - 1 <= Len(t)
  /\ \A k \in 1..Len(lit) : t[i + k - 1] = lit[k]

\* "lit in t"
Contains(t, lit) == \E i \in 1..Len(t) : StartsAt(t, i, lit)

\* t[i-1:] in Python terms: the rest of t from position i
From(t, i) == SubSeq(t, i, Len(t))

SetMin(S) == CHOOSE x \in S : \A y \in S : x <= y

(***************************************************************************)
(* cn_to_int                                                               *)
(***************************************************************************)
CN_NUM_MAP ==
  (Ch.ling :> 0) @@ (Ch.ling0 :> 0) @@
  (Ch.yi :> 1) @@ (Ch.yiF :> 1) @@
  (Ch.er :> 2) @@ (Ch.liang :> 2) @@ (Ch.erF :> 2) @@
  (Ch.san :> 3) @@ (Ch.sanF :> 3) @@
  (Ch.si :> 4) @@ (Ch.siF :> 4) @@
  (Ch.wu :> 5) @@ (Ch.wuF :> 5) @@
  (Ch.liu :> 6) @@ (Ch.liuF :> 6) @@
  (Ch.qi :> 7) @@ (Ch.qiF :> 7) @@
  (Ch.ba :> 8) @@ (Ch.baF :> 8) @@
  (Ch.jiu :> 9) @@ (Ch.jiuF :> 9) @@
  (Ch.shi :> 10) @@ (Ch.shiF :> 10)

WEEKDAY_MAP ==
  (Ch.yi :> 0) @@ (Ch.er :> 1) @@ (Ch.san :> 2) @@ (Ch.si :> 3) @@
  (Ch.wu :> 4) @@ (Ch.liu :> 5) @@ (Ch.ri :> 6) @@ (Ch.tian :> 6)

\* CN_NUM_MAP.get(s, default) for a string s
CnGet(s, default) ==
  IF Len(s) = 1 /\ s[1] \in DOMAIN CN_NUM_MAP THEN CN_NUM_MAP[s[1]] ELSE default

\* the part of s before the first sep (all of s when sep is not in s)
Before(s, sep) ==
  IF \E i \in 1..Len(s) : s[i] = sep
  THEN SubSeq(s, 1, SetMin({i \in 1..Len(s) : s[i] = sep}) - 1)
  ELSE s

\* the part of s after the first sep
After(s, sep) == SubSeq(s, Len(Before(s, sep)) + 2, Len(s))

\* s.split(sep): the parts before the first sep and between the first and the
\* second sep (parts[0], parts[1]); sep occurs in s
SplitParts(s, sep) == <<Before(s, sep), Before(After(s, sep), sep)>>

\* the loop of lines 59-63: digit accumulation, NoInt on an unknown character
RECURSIVE CnAccumulate(_, _)
CnAccumulate(s, acc) ==
  IF s = <<>> THEN acc
  ELSE IF Head(s) \in DOMAIN CN_NUM_MAP
       THEN CnAccumulate(Tail(s), acc * 10 + CN_NUM_MAP[Head(s)])
       ELSE NoInt

\* "return result if result > 0 else None"
PositiveOrNone(r) == IF r > 0 THEN r ELSE NoInt

\* tens * 10 + ones with the tens defaulting to 0, as a wrong default at line
\* 54 would compute it
TensAndOnes_TensDefaultZero(parts) ==
  (IF parts[1] # <<>> THEN CnGet(parts[1], 0) ELSE 0) * 10
  + (IF parts[2] # <<>> THEN CnGet(parts[2], 0) ELSE 0)

\* lines 54-56: tens * 10 + ones from the parts around the ten character
TensAndOnes(parts) ==
  (IF parts[1] # <<>> THEN CnGet(parts[1], 1) ELSE 1) * 10
  + (IF parts[2] # <<>> THEN CnGet(parts[2], 0) ELSE 0)

cn_to_int(cn_str) ==
  IF cn_str = <<>> THEN NoInt
  ELSE IF \A i \in 1..Len(cn_str) : cn_str[i] \in DigitChars \cup OtherDigitChars
  THEN (IF \A i \in 1..Len(cn_str) : cn_str[i] \in DigitChars
        THEN IntOf(cn_str) ELSE IntValueError)
  ELSE IF Len(cn_str) = 1 /\ cn_str[1] \in DOMAIN CN_NUM_MAP THEN CN_NUM_MAP[cn_str[1]]
  ELSE IF \E i \in 1..Len(cn_str) : cn_str[i] = Ch.shi
  THEN PositiveOrNone(TensAndOnes(SplitParts(cn_str, Ch.shi)))
  ELSE IF \E i \in 1..Len(cn_str) : cn_str[i] = Ch.shiF
  THEN PositiveOrNone(TensAndOnes(SplitParts(cn_str, Ch.shiF)))
  ELSE PositiveOrNone(CnAccumulate(cn_str, 0))

(***************************************************************************)
(* datetime and timedelta (the proleptic Gregorian calendar of Python's    *)
(* datetime module, as the parser uses it).                                *)
(***************************************************************************)
MINYEAR == 1

MAXYEAR == 9999

DaysInMonth(y, m) ==
  IF m = 2 THEN (IF y % 4 = 0 /\ (y % 100 # 0 \/ y % 400 = 0) THEN 29 ELSE 28)
  ELSE IF m \in {4, 6, 9, 11} THEN 30 ELSE 31

RECURSIVE DaysBeforeMonth(_, _)
DaysBeforeMonth(y, m) ==
  IF m = 1 THEN 0 ELSE DaysBeforeMonth(y, m - 1) + DaysInMonth(y, m - 1)

DaysBeforeYear(y) ==
  LET p == y - 1 IN p * 365 + (p \div 4) - (p \div 100) + (p \div 400)

\* date.toordinal(): 0001-01-01 is day 1
ToOrdinal(y, m, d) == DaysBeforeYear(y) + DaysBeforeMonth(y, m) + d

\* the year of ordinal n, searched upwards from a year y not after it
RECURSIVE YearOf(_, _)
YearOf(y, n) == IF n > DaysBeforeYear(y + 1) THEN YearOf(y + 1, n) ELSE y

\* the month and day of the k-th day (k from 1) of year y, searched from
\* month m
RECURSIVE MonthDayOf(_, _, _)
MonthDayOf(y, m, k) ==
  IF k <= DaysInMonth(y, m) THEN <<y, m, k>>
  ELSE MonthDayOf(y, m + 1, k - DaysInMonth(y, m))

YearDay(y, n) == MonthDayOf(y, 1, n - DaysBeforeYear(y))

\* date.fromordinal(n), as <<year, month, day>>
FromOrdinal(n) == YearDay(YearOf(((n - 1) \div 366) + 1, n), n)

\* datetime(year, month, day, hour, minute, second, microsecond): the
\* constructor raises ValueError when a field is out of range
MkDatetime(y, m, d, h, mi, s, us) ==
  IF /\ y >= MINYEAR /\ y <= MAXYEAR
     /\ m >= 1 /\ m <= 12
     /\ d >= 1 /\ d <= DaysInMonth(y, m)
     /\ h >= 0 /\ h <= 23
     /\ mi >= 0 /\ mi <= 59
     /\ s >= 0 /\ s <= 59
     /\ us >= 0 /\ us <= 999999
  THEN [kind |-> "datetime", year |-> y, month |-> m, day |-> d,
        hour |-> h, minute |-> mi, second |-> s, microsecond |-> us]
  ELSE ValueError

\* dt.replace(hour=h, minute=mi)
ReplaceHM(dt, h, mi) ==
  MkDatetime(dt.year, dt.month, dt.day, h, mi, dt.second, dt.microsecond)

\* dt.replace(hour=0, minute=0, second=0, microsecond=0)
Midnight(dt) == MkDatetime(dt.year, dt.month, dt.day, 0, 0, 0, 0)

\* dt.weekday(): Monday is 0
Weekday(dt) == (ToOrdinal(dt.year, dt.month, dt.day) + 6) % 7

\* date().toordinal() and the second of the day
Ordinal(dt) == ToOrdinal(dt.year, dt.month, dt.day)

SecondOfDay(dt) == dt.hour * 3600 + dt.minute * 60 + dt.second

\* a < b and a <= b on datetimes
DtLess(a, b) ==
  \/ Ordinal(a) < Ordinal(b)
  \/ /\ Ordinal(a) = Ordinal(b)
     /\ \/ SecondOfDay(a) < SecondOfDay(b)
        \/ SecondOfDay(a) = SecondOfDay(b) /\ a.microsecond < b.microsecond

\* the datetime on date ymd at second sod of the day
AtSecond(ymd, sod, us) ==
  MkDatetime(ymd[1], ymd[2], ymd[3], sod \div 3600, (sod % 3600) \div 60, sod % 60, us)

\* the datetime on the day of ordinal ord: OverflowError past year 9999
OnDay(ord, sod, us) ==
  IF ord > ToOrdinal(MAXYEAR, 12, 31) THEN OverflowError
  ELSE AtSecond(FromOrdinal(ord), sod, us)

\* dt + timedelta(days=days, seconds=seconds), both >= 0
AddTime(dt, days, seconds) ==
  OnDay(Ordinal(dt) + days + ((SecondOfDay(dt) + seconds) \div 86400),
        (SecondOfDay(dt) + seconds) % 86400, dt.microsecond)

\* dt + timedelta(days=n)
AddDays(dt, n) == AddTime(dt, n, 0)

(***************************************************************************)
(* Regular expressions.  A match in progress is a record: ok, the position *)
(* where it started (start), the position after what it has matched so far *)
(* (end) and the groups captured so far (g, a group that did not take part *)
(* being <<>>).  Each operator below extends a match m on the text t by    *)
(* one element of a pattern, so that a pattern reads as the composition of *)
(* its elements; XAt(t, i) is re.match of pattern X on t from position i.  *)
(***************************************************************************)
NoMatch == [ok |-> FALSE, start |-> 0, end |-> 0, g |-> <<>>]

Start(i) == [ok |-> TRUE, start |-> i, end |-> i, g |-> <<>>]

\* m extended by the next n characters, outside any group / as a group
Take(m, n) == [m EXCEPT !.end = @ + n]

Group(t, m, n) == [m EXCEPT !.end = @ + n, !.g = Append(@, SubSeq(t, m.end, m.end + n - 1))]

GroupIf(t, m, n) == IF m.ok /\ n > 0 THEN Group(t, m, n) ELSE NoMatch

\* a group that matches nothing, for an optional group that takes no part
NoGroup(t, m) == IF m.ok THEN Group(t, m, 0) ELSE m

\* a first alternative, else a second one
OrElse(a, b) == IF a.ok THEN a ELSE b

\* \s*
Spaces(t, m) == IF m.ok THEN Take(m, Run(t, m.end, SpaceChars)) ELSE m

\* [S] and ([S])
OneOf(t, m, S) == IF m.ok /\ At(t, m.end) \in S THEN Take(m, 1) ELSE NoMatch

OneOfG(t, m, S) == IF m.ok /\ At(t, m.end) \in S THEN Group(t, m, 1) ELSE NoMatch

\* [S]? and ([S])?
Opt(t, m, S) == IF m.ok /\ At(t, m.end) \in S THEN Take(m, 1) ELSE m

OptG(t, m, S) == IF m.ok THEN Group(t, m, IF At(t, m.end) \in S THEN 1 ELSE 0) ELSE m

\* a literal
Word(t, m, lit) == IF m.ok /\ StartsAt(t, m.end, lit) THEN Take(m, Len(lit)) ELSE NoMatch

\* the length of the first of the literals lits, in their order, that t has
\* at position i (0: none)
FirstWordLen(t, i, lits) ==
  IF \E k \in 1..Len(lits) : StartsAt(t, i, lits[k])
  THEN Len(lits[SetMin({k \in 1..Len(lits) : StartsAt(t, i, lits[k])})])
  ELSE 0

\* (?:a|b|..) and (a|b|..) for literals
AnyWord(t, m, lits) ==
  IF m.ok /\ FirstWordLen(t, m.end, lits) > 0
  THEN Take(m, FirstWordLen(t, m.end, lits)) ELSE NoMatch

AnyWordG(t, m, lits) == GroupIf(t, m, FirstWordLen(t, m.end, lits))

\* the length of (\d+|[class]+) at i (0: none)
NumeralLen(t, i, class) ==
  IF At(t, i) \in DigitChars THEN Run(t, i, DigitChars) ELSE Run(t, i, class)

\* (\d+|[class]+)
Numeral(t, m, class) == GroupIf(t, m, NumeralLen(t, m.end, class))

\* (\d{1,2}|[class]+) before an element no digit can start: a run of three
\* or more digits does not match, whichever of its digits the group takes
Numeral12(t, m, class) ==
  GroupIf(t, m, IF Run(t, m.end, DigitChars) > 2 THEN 0 ELSE NumeralLen(t, m.end, class))

\* (\d{1,2}|[class]+) before optional elements only: the first two digits of
\* a longer run
NumeralUpTo2(t, m, class) ==
  GroupIf(t, m, IF Run(t, m.end, DigitChars) > 2 THEN 2 ELSE NumeralLen(t, m.end, class))

\* (\d{k})
DigitsExact(t, m, k) == GroupIf(t, m, IF Run(t, m.end, DigitChars) >= k THEN k ELSE 0)

\* the first match among the matches ms[1] .. ms[n]: re.search for the
\* matches of one pattern at positions 1, 2, ..; the first pattern found for
\* the matches of several patterns
Search(n, ms) ==
  IF \E k \in 1..n : ms[k].ok
  THEN ms[CHOOSE k \in 1..n : ms[k].ok /\ \A j \in 1..(k - 1) : ~ms[j].ok]
  ELSE NoMatch

\* m.group(0)
Group0(t, m) == SubSeq(t, m.start, m.end - 1)

\* [一二三四五六七八九十百]
CnDayClass ==
  {Ch.yi, Ch.er, Ch.san, Ch.si, Ch.wu, Ch.liu, Ch.qi, Ch.ba, Ch.jiu, Ch.shi, Ch.bai}

\* [一二三四五六七八九十]
CnMinuteClass == CnDayClass \ {Ch.bai}

\* [一二三四五六七八九十两]
CnHourClass == CnMinuteClass \cup {Ch.liang}

\* [一二三四五六日天]
WeekdayClass == {Ch.yi, Ch.er, Ch.san, Ch.si, Ch.wu, Ch.liu, Ch.ri, Ch.tian}

\* (\d+|[一二三四五六七八九十百]+)\s*[天日]后
DaysLaterAt(t, i) ==
  Word(t, OneOf(t, Spaces(t, Numeral(t, Start(i), CnDayClass)), {Ch.tian, Ch.ri}), <<Ch.hou>>)

\* 下周([一二三四五六日天])
NextWeekAt(t, i) == OneOfG(t, Word(t, Start(i), <<Ch.xia, Ch.zhou>>), WeekdayClass)

\* (?:这|本)?周([一二三四五六日天])
ThisWeekAt(t, i) ==
  OneOfG(t, Word(t, Opt(t, Start(i), {Ch.zhe, Ch.ben}), <<Ch.zhou>>), WeekdayClass)

(***************************************************************************)
(* _parse_relative_date                                                    *)
(***************************************************************************)
\* the offset without the added week, as a wrong 下周 branch would compute it
NextWeekDaysAhead_NoWeekAdded(target_wd, current_wd) == (target_wd - current_wd) % 7

\* lines 93-94: days_ahead = (target_wd - current_wd) % 7; days_ahead += 7
NextWeekDaysAhead(target_wd, current_wd) == ((target_wd - current_wd) % 7) + 7

\* (target_wd - current_wd) % 7
ThisWeekDaysAhead(target_wd, current_wd) == (target_wd - current_wd) % 7

\* cn_to_int(m.group(1)) for a match m of a pattern, NoInt without a match
MatchedInt(m) == IF m.ok THEN cn_to_int(m.g[1]) ELSE NoInt

\* lines 81-109: n is the converted numeral of the N天后 match, IntValueError
\* when cn_to_int raised at line 84
RelativeByPattern(b, n, mNext, mThis) ==
  IF n = IntValueError THEN ValueError
  ELSE IF n # NoInt /\ n # 0 THEN AddDays(Midnight(b), n)
  ELSE IF mNext.ok
  THEN AddDays(Midnight(b), NextWeekDaysAhead(WEEKDAY_MAP[mNext.g[1][1]], Weekday(b)))
  ELSE IF mThis.ok
  THEN AddDays(Midnight(b), ThisWeekDaysAhead(WEEKDAY_MAP[mThis.g[1][1]], Weekday(b)))
  ELSE None

parse_relative_date(t, b) ==
  IF t = <<Ch.jin, Ch.tian>> \/ t = <<Ch.jin, Ch.ri>> THEN Midnight(b)
  ELSE IF t = <<Ch.ming, Ch.tian>> \/ t = <<Ch.ming, Ch.ri>> THEN AddDays(Midnight(b), 1)
  ELSE IF t = <<Ch.hou, Ch.tian>> THEN AddDays(Midnight(b), 2)
  ELSE IF t = <<Ch.da, Ch.hou, Ch.tian>> THEN AddDays(Midnight(b), 3)
  ELSE RelativeByPattern(b, MatchedInt(DaysLaterAt(t, 1)), NextWeekAt(t, 1), ThisWeekAt(t, 1))

(***************************************************************************)
(* _parse_time_of_day                                                      *)
(***************************************************************************)
\* (\d{1,2}):(\d{2})
DigitalAt(t, i) == DigitsExact(t, Word(t, Numeral12(t, Start(i), {}), <<":">>), 2)

\* 凌晨|早上|早晨|上午|中午|下午|傍晚|晚上|晚
PeriodWords ==
  << <<Ch.lingC, Ch.chen>>, <<Ch.zao, Ch.shang>>, <<Ch.zao, Ch.chen>>,
     <<Ch.shang, Ch.wuN>>, <<Ch.zhongM, Ch.wuN>>, <<Ch.xia, Ch.wuN>>,
     <<Ch.bang, Ch.wan>>, <<Ch.wan, Ch.shang>>, <<Ch.wan>> >>

\* (凌晨|早上|早晨|上午|中午|下午|傍晚|晚上|晚)
PeriodAt(t, i) == AnyWordG(t, Start(i), PeriodWords)

\* (?:\s*(\d{1,2}|[一二三四五六七八九十]+)\s*分?)?
LexMinutes(t, m) ==
  OrElse(Opt(t, Spaces(t, NumeralUpTo2(t, Spaces(t, m), CnMinuteClass)), {Ch.fen}),
         NoGroup(t, m))

\* \s*(\d{1,2}|[..两]+)\s*[点时](?:\s*(\d{1,2}|[..]+)\s*分?)?(半)?
LexBody(t, m) ==
  OptG(t, LexMinutes(t, OneOf(t, Spaces(t, Numeral12(t, Spaces(t, m), CnHourClass)),
                              {Ch.dian, Ch.shiH})),
       {Ch.ban})

\* the pattern of lines 125-132: with the period word when one stands at i
\* and the rest matches after it, otherwise without it
LexicalAt(t, i) ==
  OrElse(LexBody(t, AnyWord(t, Start(i), PeriodWords)), LexBody(t, Start(i)))

\* the period adjustment without the "hour < 12" test of line 149
AdjustHour_AlwaysAdds(hour, period) ==
  IF period \in {<<Ch.xia, Ch.wuN>>, <<Ch.bang, Ch.wan>>, <<Ch.wan, Ch.shang>>, <<Ch.wan>>}
  THEN hour + 12
  ELSE IF period = <<Ch.zhongM, Ch.wuN>> /\ hour = 12 THEN hour
  ELSE IF period = <<Ch.lingC, Ch.chen>> /\ hour = 12 THEN 0
  ELSE hour

\* the hour after the period-of-day adjustment of lines 146-154
AdjustHour(hour, period) ==
  IF period \in {<<Ch.xia, Ch.wuN>>, <<Ch.bang, Ch.wan>>, <<Ch.wan, Ch.shang>>, <<Ch.wan>>}
     /\ hour < 12
  THEN hour + 12
  ELSE IF period = <<Ch.zhongM, Ch.wuN>> /\ hour = 12 THEN hour
  ELSE IF period = <<Ch.lingC, Ch.chen>> /\ hour = 12 THEN 0
  ELSE hour

HM(h, mi) == [kind |-> "hm", hour |-> h, minute |-> mi]

\* lines 118-122: the digital form, h and mi the converted groups
DigitalTime(t, h, mi) ==
  HM(IF /\ \/ Contains(t, <<Ch.xia, Ch.wuN>>)
           \/ Contains(t, <<Ch.wan, Ch.shang>>)
           \/ Contains(t, <<Ch.wan>>)
           \/ Contains(t, <<Ch.bang, Ch.wan>>)
        /\ h < 12
     THEN h + 12 ELSE h, mi)

\* lines 139-143: the minute of the lexical match ml
LexMinute(ml) ==
  IF ml.g[3] # <<>> THEN 30
  ELSE IF ml.g[2] # <<>> /\ cn_to_int(ml.g[2]) # NoInt THEN cn_to_int(ml.g[2])
  ELSE 0

\* lines 135-156: the lexical form; pm is the search of a period word
LexicalTime(hour, minute, pm) ==
  IF hour = NoInt THEN None
  ELSE HM(IF pm.ok THEN AdjustHour(hour, pm.g[1]) ELSE hour, minute)

TimeOfDay(t, md, ml) ==
  IF md.ok THEN DigitalTime(t, IntOf(md.g[1]), IntOf(md.g[2]))
  ELSE IF ml.ok
  THEN LexicalTime(cn_to_int(ml.g[1]), LexMinute(ml),
                   Search(Len(t), [i \in 1..Len(t) |-> PeriodAt(t, i)]))
  ELSE None

parse_time_of_day(t) ==
  TimeOfDay(t, Search(Len(t), [i \in 1..Len(t) |-> DigitalAt(t, i)]),
            Search(Len(t), [i \in 1..Len(t) |-> LexicalAt(t, i)]))

(***************************************************************************)
(* datetime.strptime and datetime.strftime                                 *)
(***************************************************************************)
\* the length of the first alternative, in the order the directive's regular
\* expression tries them, that matches at position i (0: none):
\*   %Y \d\d\d\d                %m 1[0-2]|0[1-9]|[1-9]
\*   %d 3[0-1]|[1-2]\d|0[1-9]|[1-9]| [1-9]
\*   %H 2[0-3]|[0-1]\d|\d       %M [0-5]\d|\d       %S 6[0-1]|[0-5]\d|\d
\* (\d is any decimal digit, a range such as [1-9] ASCII digits only)
DirectiveLen(d, a, b, run) ==
  CASE d = "%Y" -> IF run >= 4 THEN 4 ELSE 0
    [] d = "%m" -> IF (a = "1" /\ b \in {"0", "1", "2"}) \/ (a = "0" /\ b \in AsciiDigits \ {"0"})
                   THEN 2 ELSE IF a \in AsciiDigits \ {"0"} THEN 1 ELSE 0
    [] d = "%d" -> IF \/ a = "3" /\ b \in {"0", "1"}
                      \/ a \in {"1", "2"} /\ b \in DigitChars
                      \/ a = "0" /\ b \in AsciiDigits \ {"0"}
                   THEN 2 ELSE IF a \in AsciiDigits \ {"0"} THEN 1
                   ELSE IF a = " " /\ b \in AsciiDigits \ {"0"} THEN 2 ELSE 0
    [] d = "%H" -> IF (a = "2" /\ b \in {"0", "1", "2", "3"}) \/ (a \in {"0", "1"} /\ b \in DigitChars)
                   THEN 2 ELSE IF a \in DigitChars THEN 1 ELSE 0
    [] d = "%M" -> IF a \in {"0", "1", "2", "3", "4", "5"} /\ b \in DigitChars
                   THEN 2 ELSE IF a \in DigitChars THEN 1 ELSE 0
    [] d = "%S" -> IF \/ a = "6" /\ b \in {"0", "1"}
                      \/ a \in {"0", "1", "2", "3", "4", "5"} /\ b \in DigitChars
                   THEN 2 ELSE IF a \in DigitChars THEN 1 ELSE 0

\* int() of a matched directive (int skips the blank of " 5")
DirectiveVal(s) == IF Head(s) = " " THEN IntOf(Tail(s)) ELSE IntOf(s)

FormatFail == [ok |-> FALSE, end |-> 0, vals |-> <<>>]

\* the match of the format's regular expression on t from i.  A directive
\* takes its first alternative that matches: when the rest of the format then
\* fails, a later (shorter) alternative of the directive fails too, because
\* what follows a directive in these formats is a separator or the end, and
\* the character after the shorter match is a digit.
RECURSIVE FormatMatch(_, _, _, _)
RECURSIVE FormatDirective(_, _, _, _, _)
FormatMatch(t, i, fmt, vals) ==
  IF fmt = <<>> THEN [ok |-> TRUE, end |-> i, vals |-> vals]
  ELSE IF Head(fmt) = " "
  THEN (IF Run(t, i, SpaceChars) >= 1
        THEN FormatMatch(t, i + Run(t, i, SpaceChars), Tail(fmt), vals)
        ELSE FormatFail)
  ELSE IF Head(fmt) \in {"-", "/", ":"}
  THEN (IF At(t, i) = Head(fmt) THEN FormatMatch(t, i + 1, Tail(fmt), vals) ELSE FormatFail)
  ELSE FormatDirective(t, i, fmt, vals,
                       DirectiveLen(Head(fmt), At(t, i), At(t, i + 1), Run(t, i, DigitChars)))

\* the directive Head(fmt) matched on the n characters from i
FormatDirective(t, i, fmt, vals, n) ==
  IF n = 0 THEN FormatFail
  ELSE FormatMatch(t, i + n, Tail(fmt),
                   (Head(fmt) :> DirectiveVal(SubSeq(t, i, i + n - 1))) @@ vals)

\* the datetime of a match m of a format on the whole of t, else ValueError
\* ("unconverted data remains", or a field out of range)
FromMatch(t, m) ==
  IF ~m.ok \/ m.end # Len(t) + 1 THEN ValueError
  ELSE MkDatetime(m.vals["%Y"], m.vals["%m"], m.vals["%d"],
                  m.vals["%H"], m.vals["%M"], m.vals["%S"], 0)

\* datetime.strptime(t, fmt): a datetime, or ValueError
strptime(t, fmt) ==
  FromMatch(t, FormatMatch(t, 1, fmt, ("%H" :> 0) @@ ("%M" :> 0) @@ ("%S" :> 0)))

\* the formats of lines 180-181, in order
StandardFormats ==
  << <<"%Y", "-", "%m", "-", "%d", " ", "%H", ":", "%M", ":", "%S">>,
     <<"%Y", "-", "%m", "-", "%d", " ", "%H", ":", "%M">>,
     <<"%Y", "-", "%m", "-", "%d">>,
     <<"%Y", "/", "%m", "/", "%d", " ", "%H", ":", "%M", ":", "%S">>,
     <<"%Y", "/", "%m", "/", "%d", " ", "%H", ":", "%M">>,
     <<"%Y", "/", "%m", "/", "%d">> >>

\* str(n) for n >= 0, in ASCII digits
RECURSIVE Decimal(_)
Decimal(n) ==
  IF n < 10 THEN <<DecimalDigits[1][n + 1]>>
  ELSE Decimal(n \div 10) \o <<DecimalDigits[1][(n % 10) + 1]>>

\* s padded with zeros to at least w digits
RECURSIVE ZeroPad(_, _)
ZeroPad(s, w) == IF Len(s) >= w THEN s ELSE ZeroPad(<<"0">> \o s, w)

\* 未设置, the text of format_time(None)
NotSetText == <<"U+672A", "U+8BBE", "U+7F6E">>

\* format_time(dt): 未设置 for None, else dt.strftime("%Y-%m-%d %H:%M").  The
\* C library decides whether %Y pads a year below 1000 to four digits (glibc
\* does not); padsYear is that choice.
format_time(dt, padsYear) ==
  IF dt.kind = "None" THEN NotSetText
  ELSE
  (IF padsYear THEN ZeroPad(Decimal(dt.year), 4) ELSE Decimal(dt.year))
  \o <<"-">> \o ZeroPad(Decimal(dt.month), 2)
  \o <<"-">> \o ZeroPad(Decimal(dt.day), 2)
  \o <<" ">> \o ZeroPad(Decimal(dt.hour), 2)
  \o <<":">> \o ZeroPad(Decimal(dt.minute), 2)

(***************************************************************************)
(* parse_time                                                              *)
(***************************************************************************)
\* (\d{4})\s*年\s*(\d{1,2})\s*月\s*(\d{1,2})\s*[日号]
FullDateAt(t, i) ==
  OneOf(t, Spaces(t, Numeral12(t, Spaces(t,
    OneOf(t, Spaces(t, Numeral12(t, Spaces(t,
      OneOf(t, Spaces(t, DigitsExact(t, Start(i), 4)), {Ch.nian})), {})), {Ch.yue})), {})),
    {Ch.ri, Ch.hao})

\* (\d{1,2})\s*月\s*(\d{1,2})\s*[日号]?
MonthDayAt(t, i) ==
  Opt(t, Spaces(t, NumeralUpTo2(t, Spaces(t,
    OneOf(t, Spaces(t, Numeral12(t, Start(i), {})), {Ch.yue})), {})),
    {Ch.ri, Ch.hao})

\* (\d+|[一二三四五六七八九十]+)\s*(?:个)?小时后
HoursLaterAt(t, i) ==
  Word(t, Opt(t, Spaces(t, Numeral(t, Start(i), CnMinuteClass)), {Ch.ge}),
       <<Ch.xiao, Ch.shiH, Ch.hou>>)

\* (\d+|[一二三四五六七八九十]+)\s*分钟后
MinutesLaterAt(t, i) ==
  Word(t, Spaces(t, Numeral(t, Start(i), CnMinuteClass)), <<Ch.fen, Ch.zhong, Ch.hou>>)

\* text.strip()
RECURSIVE Strip(_)
Strip(t) ==
  IF t # <<>> /\ Head(t) \in SpaceChars THEN Strip(Tail(t))
  ELSE IF t # <<>> /\ t[Len(t)] \in SpaceChars THEN Strip(SubSeq(t, 1, Len(t) - 1))
  ELSE t

\* "except ValueError: continue"
OrNextFormat(r, next) == IF r = ValueError THEN next ELSE r

\* step 1: what the first format that strptime accepts gives, else None
RECURSIVE TryFormats(_, _)
TryFormats(t, k) ==
  IF k > Len(StandardFormats) THEN None
  ELSE OrNextFormat(strptime(t, StandardFormats[k]), TryFormats(t, k + 1))

\* date_part with the hour and minute of time_part, the time of day found in
\* the text after the date (lines 192-196 and 205-209); building date_part
\* may have raised
MergeTime(date_part, time_part) ==
  IF IsRaise(date_part) THEN date_part
  ELSE IF time_part # None THEN ReplaceHM(date_part, time_part.hour, time_part.minute)
  ELSE date_part

\* step 2: YYYY年MM月DD日, m its match
ParseFullDate(t, m) ==
  MergeTime(MkDatetime(IntOf(m.g[1]), IntOf(m.g[2]), IntOf(m.g[3]), 0, 0, 0, 0),
            parse_time_of_day(From(t, m.end)))

\* lines 203-204: date_part moved to the next year when before base
RollYear(date_part, b) ==
  IF IsRaise(date_part) THEN date_part
  ELSE IF DtLess(date_part, b)
  THEN MkDatetime(date_part.year + 1, date_part.month, date_part.day, 0, 0, 0, 0)
  ELSE date_part

\* step 3: MM月DD日, m its match
ParseMonthDay(t, b, m) ==
  MergeTime(RollYear(MkDatetime(b.year, IntOf(m.g[1]), IntOf(m.g[2]), 0, 0, 0, 0), b),
            parse_time_of_day(From(t, m.end)))

\* lines 222-226: the first of the date patterns that is found in the text
DatePatternMatch(t) ==
  Search(7,
    << Search(Len(t), [i \in 1..Len(t) |-> Word(t, Start(i), <<Ch.da, Ch.hou, Ch.tian>>)]),
       Search(Len(t), [i \in 1..Len(t) |-> Word(t, Start(i), <<Ch.hou, Ch.tian>>)]),
       Search(Len(t), [i \in 1..Len(t) |->
                         AnyWord(t, Start(i), << <<Ch.ming, Ch.tian>>, <<Ch.ming, Ch.ri>> >>)]),
       Search(Len(t), [i \in 1..Len(t) |->
                         AnyWord(t, Start(i), << <<Ch.jin, Ch.tian>>, <<Ch.jin, Ch.ri>> >>)]),
       Search(Len(t), [i \in 1..Len(t) |-> DaysLaterAt(t, i)]),
       Search(Len(t), [i \in 1..Len(t) |-> NextWeekAt(t, i)]),
       Search(Len(t), [i \in 1..Len(t) |-> ThisWeekAt(t, i)]) >>)

\* date_result: what _parse_relative_date makes of the pattern found
DateResult(t, b, m) == IF m.ok THEN parse_relative_date(Group0(t, m), b) ELSE None

\* step 5: N小时后 / N分钟后, nh and nm the converted numerals;
\* base + timedelta(hours=nh), base + timedelta(minutes=nm)
Duration(b, nh, nm) ==
  IF nh = IntValueError THEN ValueError
  ELSE IF nh # NoInt /\ nh # 0 THEN AddTime(b, nh \div 24, (nh % 24) * 3600)
  ELSE IF nm = IntValueError THEN ValueError
  ELSE IF nm # NoInt /\ nm # 0 THEN AddTime(b, nm \div 1440, (nm % 1440) * 60)
  ELSE None

ParseDuration(t, b) ==
  Duration(b, MatchedInt(Search(Len(t), [i \in 1..Len(t) |-> HoursLaterAt(t, i)])),
           MatchedInt(Search(Len(t), [i \in 1..Len(t) |-> MinutesLaterAt(t, i)])))

\* lines 241-243: a time of day that is not after base is tomorrow's
TodayOrTomorrow(r, b) ==
  IF IsRaise(r) THEN r
  ELSE IF r = b \/ DtLess(r, b) THEN AddDays(r, 1)
  ELSE r

\* steps 4 and 5: date_result and time_result combined
Combine(t, b, date_result, time_result) ==
  IF IsRaise(date_result) THEN date_result
  ELSE IF date_result # None /\ time_result # None
  THEN ReplaceHM(date_result, time_result.hour, time_result.minute)
  ELSE IF date_result # None THEN date_result
  ELSE IF time_result # None
  THEN TodayOrTomorrow(MkDatetime(b.year, b.month, b.day,
                                  time_result.hour, time_result.minute, 0, 0), b)
  ELSE ParseDuration(t, b)

\* steps 1 to 3 on the stripped text, std what step 1 found
Steps(t, b, std, mFull, mMD) ==
  IF t = <<>> THEN None
  ELSE IF std # None THEN std
  ELSE IF mFull.ok THEN ParseFullDate(t, mFull)
  ELSE IF mMD.ok THEN ParseMonthDay(t, b, mMD)
  ELSE Combine(t, b, DateResult(t, b, DatePatternMatch(t)), parse_time_of_day(t))

parse_time(raw, b) ==
  Steps(Strip(raw), b, TryFormats(Strip(raw), 1), FullDateAt(Strip(raw), 1),
        MonthDayAt(Strip(raw), 1))


(***************************************************************************)
(* format_relative                                                         *)
(***************************************************************************)
\* timedelta(days, seconds, microseconds), normalised as the constructor
\* does: 0 <= microseconds < 10^6, 0 <= seconds < 86400, days of any sign.
\* // and % of Python round towards minus infinity, as \div and % do here.
Timedelta(days, seconds, us) ==
  [ days |-> days + ((seconds + (us \div 1000000)) \div 86400),
    seconds |-> (seconds + (us \div 1000000)) % 86400,
    microseconds |-> us % 1000000 ]

\* a - b for two datetimes
DtSub(a, b) ==
  Timedelta(Ordinal(a) - Ordinal(b), SecondOfDay(a) - SecondOfDay(b),
            a.microsecond - b.microsecond)

\* diff.total_seconds() <= 0
NotPositive(diff) ==
  \/ diff.days < 0
  \/ diff.days = 0 /\ diff.seconds = 0 /\ diff.microseconds = 0

\* abs(diff) keeps the fields of the negated timedelta but not normalised
TimedeltaAbs_FieldsOfNegative(diff) ==
  IF diff.days < 0
  THEN [days |-> -diff.days, seconds |-> diff.seconds, microseconds |-> diff.microseconds]
  ELSE diff

\* abs(diff): -diff when diff.days < 0
TimedeltaAbs(diff) ==
  IF diff.days < 0 THEN Timedelta(-diff.days, -diff.seconds, -diff.microseconds)
  ELSE diff

\* the text for an instant at or before now: 已逾期D天 已逾期H小时 刚刚逾期
Overdue(past) ==
  IF past.days > 0
  THEN <<Ch.yiY, Ch.yu, Ch.qiD>> \o Decimal(past.days) \o <<Ch.tian>>
  ELSE IF past.seconds \div 3600 > 0
  THEN <<Ch.yiY, Ch.yu, Ch.qiD>> \o Decimal(past.seconds \div 3600) \o <<Ch.xiao, Ch.shiH>>
  ELSE <<Ch.gang, Ch.gang, Ch.yu, Ch.qiD>>

\* the text for an instant after now: D天后到期 H小时后到期 M分钟后到期
Upcoming(diff) ==
  IF diff.days > 0
  THEN Decimal(diff.days) \o <<Ch.tian, Ch.hou, Ch.dao, Ch.qiD>>
  ELSE IF diff.seconds \div 3600 > 0
  THEN Decimal(diff.seconds \div 3600) \o <<Ch.xiao, Ch.shiH, Ch.hou, Ch.dao, Ch.qiD>>
  ELSE Decimal(diff.seconds \div 60) \o <<Ch.fen, Ch.zhong, Ch.hou, Ch.dao, Ch.qiD>>

RelativeText(diff) ==
  IF NotPositive(diff) THEN Overdue(TimedeltaAbs(diff)) ELSE Upcoming(diff)

\* format_relative(dt) when datetime.now() returns t; "" for None
format_relative(dt, t) ==
  IF dt = None THEN <<>> ELSE RelativeText(DtSub(dt, t))

(***************************************************************************)
(* TodoPlugin._extract_content_and_time (main.py)                          *)
(***************************************************************************)
\* text.split(): the words of t, separated by runs of blanks
RECURSIVE SplitWords(_)
SplitWords(t) ==
  IF t = <<>> THEN <<>>
  ELSE IF Head(t) \in SpaceChars THEN SplitWords(Tail(t))
  ELSE <<SubSeq(t, 1, Run(t, 1, {t[i] : i \in 1..Len(t)} \ SpaceChars))>>
       \o SplitWords(From(t, 1 + Run(t, 1, {t[i] : i \in 1..Len(t)} \ SpaceChars)))

\* " ".join(words)
RECURSIVE Join(_)
Join(words) ==
  IF words = <<>> THEN <<>>
  ELSE IF Len(words) = 1 THEN words[1]
  ELSE words[1] \o <<" ">> \o Join(Tail(words))

\* the value returned: (content, time)
ContentAndTime(content, time) == [kind |-> "split", content |-> content, time |-> time]

\* lines 415-427: the loop over the proper prefixes parts[:i], then the split
\* at best_split; ExtractStep is one turn of the loop, parsed what parse_time
\* made of the prefix (parse_time raising ends the call)
RECURSIVE ExtractLoop(_, _, _, _, _, _)
RECURSIVE ExtractStep(_, _, _, _, _, _, _)
ExtractLoop(t, parts, i, best_split, best_time, b) ==
  IF i < Len(parts)
  THEN ExtractStep(t, parts, i, best_split, best_time, b,
                   parse_time(Join(SubSeq(parts, 1, i)), b))
  ELSE IF best_time # None /\ Join(SubSeq(parts, best_split + 1, Len(parts))) # <<>>
  THEN ContentAndTime(Join(SubSeq(parts, best_split + 1, Len(parts))), best_time)
  ELSE ContentAndTime(Strip(t), None)

ExtractStep(t, parts, i, best_split, best_time, b, parsed) ==
  IF IsRaise(parsed) THEN parsed
  ELSE IF parsed # None THEN ExtractLoop(t, parts, i + 1, i, parsed, b)
  ELSE ExtractLoop(t, parts, i + 1, best_split, best_time, b)

\* lines 403-409: a single word is parsed and, whatever the outcome, kept as
\* content; parsed is parse_time(text)
SingleWord(t, parsed) == IF IsRaise(parsed) THEN parsed ELSE ContentAndTime(t, None)

\* _extract_content_and_time(text), with b the value of datetime.now() that
\* parse_time takes as base
extract_content_and_time(raw, b) ==
  IF Strip(raw) = <<>> THEN ContentAndTime(<<>>, None)
  ELSE IF Len(SplitWords(raw)) <= 1 THEN SingleWord(Strip(raw), parse_time(Strip(raw), b))
  ELSE ExtractLoop(Strip(raw), SplitWords(raw), 1, 0, None, b)


(***************************************************************************)
(* The scheduler (scheduler.py) and TodoPlugin.terminate (main.py).        *)
(*                                                                         *)
(* Time is counted in seconds; clock is what datetime.now() reads, in      *)
(* seconds since the midnight of the day on which the plugin was started,  *)
(* and the time of day is clock % DayLen.  A task is at one of its await   *)
(* points:                                                                 *)
(*   "created"        created by asyncio.create_task, not yet run          *)
(*   "initial_sleep"  await asyncio.sleep(30) of line 108                  *)
(*   "sleep"          await asyncio.sleep(...) of lines 86 and 116         *)
(*   "callback"       await callback() of lines 89 and 112                 *)
(*   "retry_sleep"    await asyncio.sleep(60) of lines 98 and 122          *)
(*   "done"           the coroutine has ended                              *)
(* interval[t] is interval_seconds of the interval loop t, wait[t] the     *)
(* time task t has yet to sleep, cancelled[t] that task.cancel() was       *)
(* called on t and the CancelledError is still to be thrown at t's await   *)
(* point, fails[t] how many calls of t's callback in a row ended by        *)
(* raising an Exception.                                                   *)
(***************************************************************************)
\* timedelta(days=1), in seconds
DayLen == 86400

\* the last time of the clock is Horizon seconds after the default report
\* time
Horizon == 700

\* most failures of a callback in a row
MaxFails == 2

\* most calls of cancel_all
MaxCancels == 2

\* the tasks that _start_tasks creates, in the order of self._tasks
Tasks == <<"daily", "reminder", "overdue">>

TaskSet == {Tasks[i] : i \in 1..Len(Tasks)}

\* a report_time that int() does not accept
Invalid == -1

\* the sleeps of line 108 and of lines 98 and 122, in seconds
SleepSeconds == [initial |-> 30, retry |-> 60]

\* main.py line 66: check_interval of the reminder check, in minutes, for
\* reminder_advance_minutes = advance
CheckInterval(advance) ==
  IF advance \div 2 < 1 THEN 1 ELSE IF advance \div 2 > 10 THEN 10 ELSE advance \div 2

\* interval_seconds of the two interval loops (lines 50 and 65) for the
\* configuration reminder_advance_minutes = advance and
\* overdue_check_interval_hours = hours
IntervalSeconds(advance, hours) ==
  [reminder |-> CheckInterval(advance) * 60, overdue |-> hours * 3600]

\* target <= now read as target < now: a report time equal to now is today's
WaitSeconds_TodayWhenEqual(t, report) ==
  IF report < t THEN report + DayLen - t ELSE report - t

\* lines 78-84: the time from t, the time of day that datetime.now() read, to
\* the next report time after it
WaitSeconds(t, report) == IF report <= t THEN report + DayLen - t ELSE report - t

\* lines 72-86 and 96-98: where an iteration of the daily loop that starts
\* when the clock reads t goes to sleep and for how long, <<await point, time>>
DailyIteration(t, report) ==
  IF report = Invalid THEN <<"retry_sleep", SleepSeconds.retry>>
  ELSE <<"sleep", WaitSeconds(t % DayLen, report)>>

\* where task t sleeps after its callback returned, <<await point, time>>
AfterCallback(t, at, report, every) ==
  IF t = "daily" THEN DailyIteration(at, report) ELSE <<"sleep", every[t]>>

\* the loop ended by the Exception of its callback, as without the try of
\* lines 88 and 111
AfterCallbackRaised_EndsLoop(t, at, report, every) == <<"done", 0>>

\* where task t is after its callback raised an Exception: the except Exception
\* of lines 90 and 113 takes it, and the loop goes on as after a return
AfterCallbackRaised(t, at, report, every) == AfterCallback(t, at, report, every)

\* CancelledError taken by the except Exception around the callback, as it
\* would be were it an Exception: the loop goes on to its sleep
OnCancelled_CallbackSwallows(p) == IF p = "callback" THEN "sleep" ELSE "done"

\* where a task is after CancelledError is thrown at its await point p: lines
\* 93-95 and 117-119 break the loop, and outside the try the error ends the
\* coroutine
OnCancelled(p) == "done"

\* cancel_all: the tasks that task.cancel() is called on
CancelRequests(ts, pcs, c) ==
  [t \in TaskSet |-> c[t] \/ (\E i \in 1..Len(ts) : ts[i] = t /\ pcs[t] # "done")]

\* wait_all: the tasks of self._tasks that it awaits
Awaited(ts, pcs) == {ts[i] : i \in {j \in 1..Len(ts) : pcs[ts[j]] # "done"}}

\* "08:00", the default of daily_report_time, in seconds of the day
DefaultReportTime == 8 * 3600

\* the scheduler after TodoPlugin.__init__ at the time at, with
\* daily_report_time = r and the intervals every: the three tasks are created
\* and none has run
SchedStart(r, at, every) ==
  /\ clock = at
  /\ report_time = r
  /\ interval = every
  /\ pc = [t \in TaskSet |-> "created"]
  /\ wait = [t \in TaskSet |-> 0]
  /\ fails = [t \in TaskSet |-> 0]
  /\ cancelled = [t \in TaskSet |-> FALSE]
  /\ tasks = Tasks
  /\ terminating = "no"
  /\ cancel_calls = 0

(***************************************************************************)
(* The todo store (data_manager.py) and the reminder check (main.py).      *)
(*                                                                         *)
(* now is the time that datetime.now() reads, and deadlines and reminder   *)
(* times are times of the same clock, NoTime for None.  A todo is a record *)
(* of the fields id, deadline, done, done_at, reminded and custom_reminder *)
(* of TodoItem; content and created_at are left out, as nothing modelled   *)
(* reads them.  Ids are numbered in the order of creation: the    *)
(* eight hexadecimal digits of a uuid4 are taken to be distinct.           *)
(*   data[k]     the todos stored under the key k, self._data[k]           *)
(*   store_keys  the keys of self._data, in the order they were added      *)
(*   file        todos.json: <<>> while there is no file, else the one     *)
(*               content that _save wrote                                  *)
(*   ret         what the call of the data manager in the last step        *)
(*               returned: the id of the item, in a set ({} for None)      *)
(*   cleared     the number that clear_done returned in the last step, in  *)
(*               a set ({} when the last step was not clear_done)          *)
(*   rc          the reminder check: where it is, the keys it has yet to   *)
(*               look at, the key it looks at, and the due custom          *)
(*               reminders of that key it has yet to send                  *)
(*   sent        the messages that send_message has delivered              *)
(*   tried       the ids of the todos for which the reminder check began   *)
(*               to send a deadline reminder (line 497)                    *)
(* No data manager call is suspended half-way: _save awaits only           *)
(* self._lock, which is free whenever it is asked for, as the file is      *)
(* written without an await while it is held.                              *)
(***************************************************************************)
\* the most todos ever added
MaxIds == 2

\* reminder_advance_minutes, in units of the clock
ReminderAdvance == 1

\* the last time of the clock: the first time at which a deadline that was
\* within reach at the time 0 is past
MaxTime == ReminderAdvance + 1

\* the conversations
Keys == {"k1", "k2"}

\* None as a deadline or a reminder time
NoTime == -1

\* the deadlines of the todos that are added: none, or a time that is within
\* ReminderAdvance of the times before it
Deadlines == {NoTime, ReminderAdvance}

\* the times of the custom reminders that are set
ReminderTimes == {ReminderAdvance}

\* get_history(self, key, limit: int = 20): the limit that /todo history asks
\* for
HistoryLimit == 20

\* the limits that get_history is asked for
Limits == (1..MaxIds) \cup {HistoryLimit}

\* TodoItem(content, deadline) with the id n
TodoItem(n, deadline) ==
  [id |-> n, deadline |-> deadline, done |-> FALSE, done_at |-> NoTime,
   reminded |-> FALSE, custom_reminder |-> NoTime]

\* [i for i in items if ...]: the items that are in keep, in their order
RECURSIVE Select(_, _)
Select(items, keep) ==
  IF items = <<>> THEN <<>>
  ELSE IF Head(items) \in keep THEN <<Head(items)>> \o Select(Tail(items), keep)
  ELSE Select(Tail(items), keep)

Items(items) == {items[i] : i \in 1..Len(items)}

\* get_todos(key): the undone items
get_todos(items) == Select(items, {i \in Items(items) : ~i.done})

\* done_items.sort(key=lambda x: x.done_at or datetime.min, reverse=True) as
\* it places the item i in the sorted list s: behind the items that were done
\* no earlier, the sort being stable
RECURSIVE SortedInsert(_, _)
SortedInsert(s, i) ==
  IF s = <<>> THEN <<i>>
  ELSE IF Head(s).done_at >= i.done_at THEN <<Head(s)>> \o SortedInsert(Tail(s), i)
  ELSE <<i>> \o s

\* done_items.sort(...) of the items that are left, sorted being sorted
RECURSIVE SortByDoneAt(_, _)
SortByDoneAt(items, sorted) ==
  IF items = <<>> THEN sorted
  ELSE SortByDoneAt(Tail(items), SortedInsert(sorted, Head(items)))

\* the whole history taken for its first limit items
Truncate_KeepsAll(s, limit) == s

\* s[:limit], limit >= 0
Truncate(s, limit) == SubSeq(s, 1, IF limit < Len(s) THEN limit ELSE Len(s))

\* get_history(key, limit): the done items, the last done first, limit of
\* them at most
get_history(items, limit) ==
  Truncate(SortByDoneAt(Select(items, {i \in Items(items) : i.done}), <<>>), limit)

\* get_undone_count(key)
get_undone_count(items) == Cardinality({p \in 1..Len(items) : ~items[p].done})

\* get_done_count(key)
get_done_count(items) == Cardinality({p \in 1..Len(items) : items[p].done})

\* set_reminded, lines 202-205: reminded = True on the first item with the
\* id n
RECURSIVE MarkReminded(_, _)
MarkReminded(items, n) ==
  IF items = <<>> THEN <<>>
  ELSE IF Head(items).id = n
  THEN <<[Head(items) EXCEPT !.reminded = TRUE]>> \o Tail(items)
  ELSE <<Head(items)>> \o MarkReminded(Tail(items), n)

\* the place in items of the item that is wrong = undone[index - 1] would be
\* were undone the whole list
TargetPosition_IndexesAllItems(items, index) == index

\* the place in items of target = undone[index - 1]
TargetPosition(items, index) ==
  CHOOSE p \in 1..Len(items) :
    ~items[p].done /\ Cardinality({j \in 1..p : ~items[j].done}) = index

\* "index < 1 or index > len(undone)"
OutOfRange(items, index) == index < 1 \/ index > Len(get_todos(items))

\* items.remove(target), target the item at p
Remove(items, p) == SubSeq(items, 1, p - 1) \o SubSeq(items, p + 1, Len(items))

\* get_needs_reminder(key, advance_minutes) at the time t
get_needs_reminder(items, advance, t) ==
  Select(items, {i \in Items(items) :
                   /\ ~i.done /\ ~i.reminded /\ i.deadline # NoTime
                   /\ t <= i.deadline /\ i.deadline <= t + advance})

\* get_custom_reminder_due(key) at the time t
get_custom_reminder_due(items, t) ==
  Select(items, {i \in Items(items) :
                   ~i.done /\ i.custom_reminder # NoTime /\ i.custom_reminder <= t})

\* _save(): what json.dump writes, the whole of self._data
Saved(keys, d) == <<[keys |-> keys, data |-> d]>>

\* _load(): the store read from the file, empty when there is no file
Loaded(f) ==
  IF f = <<>> THEN [keys |-> <<>>, data |-> [k \in Keys |-> <<>>]] ELSE f[1]

\* the list custom_due of line 512, read before send_message was awaited,
\* taken for the list to write back
ItemsRead_CustomDue(stored, custom_due) == custom_due

\* line 521, items = self.data_manager._get_items(key): the list that is
\* changed and written back after send_message is the stored one, read anew
ItemsRead(stored, custom_due) == stored

\* the store as it stays when lines 521-526 clear nothing
ClearCustomReminder_LeavesSet(items, n) == items

\* lines 521-526: custom_reminder = None on the first item with the id n
RECURSIVE ClearCustomReminder(_, _)
ClearCustomReminder(items, n) ==
  IF items = <<>> THEN <<>>
  ELSE IF Head(items).id = n
  THEN <<[Head(items) EXCEPT !.custom_reminder = NoTime]>> \o Tail(items)
  ELSE <<Head(items)>> \o ClearCustomReminder(Tail(items), n)

\* self.data_manager.get_setting(key, "at_all", False): DataManager has no
\* attribute get_setting
get_setting == [kind |-> "AttributeError"]

\* lines 496-510 for the items needs: the ids of those for which the try is
\* entered, and of those for which line 507 is reached
DeadlineLoop(needs) ==
  [tried |-> {i.id : i \in Items(needs)},
   sending |-> IF get_setting.kind = "AttributeError" THEN {}
               ELSE {i.id : i \in Items(needs)}]

\* the reminder check between two calls
RcIdle == [at |-> "idle", keys |-> <<>>, key |-> "", items |-> <<>>]

\* lines 492-519 from the key Head(keys) on, with the data d at the time t:
\* the deadline loop of each key, up to the first key that has a custom
\* reminder due, whose first message is then being sent; seen collects the
\* ids that the deadline loops tried
RECURSIVE RcScan(_, _, _, _)
RcScan(keys, d, t, seen) ==
  IF keys = <<>> THEN [rc |-> RcIdle, tried |-> seen]
  ELSE IF get_custom_reminder_due(d[Head(keys)], t) # <<>>
  THEN [rc |-> [at |-> "send_message", keys |-> Tail(keys), key |-> Head(keys),
                items |-> get_custom_reminder_due(d[Head(keys)], t)],
        tried |-> seen \cup DeadlineLoop(get_needs_reminder(d[Head(keys)],
                                                            ReminderAdvance, t)).tried]
  ELSE RcScan(Tail(keys), d, t,
              seen \cup DeadlineLoop(get_needs_reminder(d[Head(keys)],
                                                        ReminderAdvance, t)).tried)

\* the loop of line 513 after the item Head(c.items): the next item, or the
\* keys that are left
RcContinue(c, d, t, seen) ==
  IF Len(c.items) > 1
  THEN [rc |-> [c EXCEPT !.items = Tail(c.items)], tried |-> seen]
  ELSE RcScan(c.keys, d, t, seen)

\* no call of the data manager has returned
NoReturn == {}

\* the reminder check goes on as c says
RcGoesOn(c) ==
  /\ rc' = c.rc
  /\ tried' = c.tried
  /\ ret' = NoReturn
  /\ cleared' = {}

\* the store of a new installation: DataManager.__init__ finds no file
StoreStart ==
  /\ now = 0
  /\ next_id = 1
  /\ store_keys = <<>>
  /\ data = [k \in Keys |-> <<>>]
  /\ file = <<>>
  /\ cleared = {}
  /\ ret = NoReturn
  /\ rc = RcIdle
  /\ sent = {}
  /\ tried = {}
(***************************************************************************)
(* Inputs: the texts and base instants the functions are applied to.       *)
(***************************************************************************)
\* the canonical Chinese numeral of n in 1..99: 一..九, 十, 十一..十九, 二十,
\* 二十一, ..., 九十九
ToCn(n) ==
  (IF n >= 20
   THEN <<(<<Ch.yi, Ch.er, Ch.san, Ch.si, Ch.wu, Ch.liu, Ch.qi, Ch.ba, Ch.jiu>>)[n \div 10]>>
   ELSE <<>>)
  \o (IF n >= 10 THEN <<Ch.shi>> ELSE <<>>)
  \o (IF n % 10 # 0
      THEN <<(<<Ch.yi, Ch.er, Ch.san, Ch.si, Ch.wu, Ch.liu, Ch.qi, Ch.ba, Ch.jiu>>)[n % 10]>>
      ELSE <<>>)

\* number of consecutive base days, from Monday 2026-02-16
BaseDays == 7

\* N天后 is tried for N in 0..MaxN (as digits)
MaxN == 3

\* the base instants: four times of day <<hour, minute, second, microsecond>>
\* on each base day, and a leap day, the day after it and the last day of a
\* year
Bases ==
  { MkDatetime(2026, 2, 16 + d, tm[1], tm[2], tm[3], tm[4]) :
      d \in 0..(BaseDays - 1),
      tm \in {<<0, 0, 0, 0>>, <<10, 0, 0, 0>>, <<20, 30, 0, 0>>, <<23, 59, 30, 7>>} }
  \cup { MkDatetime(2024, 2, 29, 10, 0, 0, 0), MkDatetime(2024, 3, 1, 10, 0, 0, 0),
         MkDatetime(2026, 12, 31, 20, 30, 0, 0) }

NextWeekTexts == {<<Ch.xia, Ch.zhou, x>> : x \in WeekdayClass}

ThisWeekTexts ==
  {<<Ch.zhe, Ch.zhou, x>> : x \in WeekdayClass}
  \cup {<<Ch.ben, Ch.zhou, x>> : x \in WeekdayClass}
  \cup {<<Ch.zhou, x>> : x \in WeekdayClass}

\* N天后 phrases whose numeral does not convert: 0天后, 一百天后
FailingDaysLater == {<<"0", Ch.tian, Ch.hou>>, <<Ch.yi, Ch.bai, Ch.tian, Ch.hou>>}

\* a numeral of one digit more than int() converts: 11..1, and its N天后 phrase
LongNumeral == [i \in 1..(MaxStrDigits + 1) |-> "1"]

LongTexts == {LongNumeral \o <<Ch.tian, Ch.hou>>}

\* with ３天后 (fullwidth digit) and 3<tab>天后
DatePhrases ==
  { <<Ch.jin, Ch.tian>>, <<Ch.jin, Ch.ri>>, <<Ch.ming, Ch.tian>>, <<Ch.ming, Ch.ri>>,
    <<Ch.hou, Ch.tian>>, <<Ch.da, Ch.hou, Ch.tian>>,
    <<Ch.san, Ch.tian, Ch.hou>>, <<Ch.shi, Ch.wu, Ch.ri, Ch.hou>>,
    <<"U+FF13", Ch.tian, Ch.hou>>, <<"3", "U+0009", Ch.tian, Ch.hou>> }
  \cup {Decimal(n) \o <<Ch.tian, Ch.hou>> : n \in 0..MaxN}
  \cup FailingDaysLater \cup NextWeekTexts \cup ThisWeekTexts

\* time-of-day expressions: 晚上8点半 下午三点 三点 5点 0点 25点 下午25点
\* 凌晨12点 中午12点 3点99分 8点30分 10:00 20:30 23:59 25:99 下午3:30
\* 3<ideographic space>点 ١٠:٣٠ (Arabic-Indic digits)
TimePhrases ==
  { <<Ch.wan, Ch.shang, "8", Ch.dian, Ch.ban>>, <<Ch.xia, Ch.wuN, Ch.san, Ch.dian>>,
    <<Ch.san, Ch.dian>>, <<"5", Ch.dian>>, <<"0", Ch.dian>>, <<"2", "5", Ch.dian>>,
    <<Ch.xia, Ch.wuN, "2", "5", Ch.dian>>, <<Ch.lingC, Ch.chen, "1", "2", Ch.dian>>,
    <<Ch.zhongM, Ch.wuN, "1", "2", Ch.dian>>, <<"3", Ch.dian, "9", "9", Ch.fen>>,
    <<"8", Ch.dian, "3", "0", Ch.fen>>, <<"1", "0", ":", "0", "0">>,
    <<"2", "0", ":", "3", "0">>, <<"2", "3", ":", "5", "9">>,
    <<"2", "5", ":", "9", "9">>, <<Ch.xia, Ch.wuN, "3", ":", "3", "0">>,
    <<"3", "U+3000", Ch.dian>>, <<"U+0661", "U+0660", ":", "U+0663", "U+0660">> }

\* the date phrases that are combined with a time of day: 明天 后天 3天后 周一
\* 下周一 今天
ComboDates ==
  { <<Ch.ming, Ch.tian>>, <<Ch.hou, Ch.tian>>, <<"3", Ch.tian, Ch.hou>>,
    <<Ch.zhou, Ch.yi>>, <<Ch.xia, Ch.zhou, Ch.yi>>, <<Ch.jin, Ch.tian>> }

ComboTexts ==
  {d \o t : d \in ComboDates, t \in TimePhrases}
  \cup {t \o d : d \in ComboDates, t \in TimePhrases}

\* a failing N天后 phrase followed by a date phrase of lower priority
FallThroughTexts ==
  {f \o d : f \in FailingDaysLater, d \in {<<Ch.xia, Ch.zhou, Ch.yi>>, <<Ch.zhou, Ch.wu>>}}

\* <<month, day>> of the year-less M月D日 texts, and the text after the date
MonthDays ==
  {<<2, 17>>, <<2, 18>>, <<2, 19>>, <<2, 29>>, <<2, 30>>, <<13, 1>>, <<12, 31>>, <<1, 1>>}

MonthDaySuffixes ==
  { <<>>, <<Ch.xia, Ch.wuN, "3", Ch.dian>>, <<"9", Ch.dian>>, <<" ", "2", "3", ":", "5", "9">>,
    <<"2", "5", Ch.dian>> }

MonthDayText(md, suffix) ==
  Decimal(md[1]) \o <<Ch.yue>> \o Decimal(md[2]) \o <<Ch.ri>> \o suffix

MonthDayTexts == {MonthDayText(md, s) : md \in MonthDays, s \in MonthDaySuffixes}

\* texts of the other forms.
\* YYYY年M月D日: 2026年2月30日 2026年2月20日 2026年2月20日下午3点 0999年1月1日
\*   2024年2月29号 10:00
\* durations: 3小时后 三个小时后 30分钟后 十五分钟后 0小时后30分钟后
\* other standard forms (2026-02-20, 2026/02/20 18:00:30), trailing text, blank
\* and non-time texts
\* blanks other than " " and digits other than ASCII: 2026-02-20<tab>18:00
\*   ２０２６-02-2٣ 18:00  2026-٢-20  2026年<tab>2月<newline>20日
\*   <newline>明天<ideographic space>  <tab><no-break space>
OtherTexts ==
  { <<"2", "0", "2", "6", Ch.nian, "2", Ch.yue, "3", "0", Ch.ri>>,
    <<"2", "0", "2", "6", Ch.nian, "2", Ch.yue, "2", "0", Ch.ri>>,
    <<"2", "0", "2", "6", Ch.nian, "2", Ch.yue, "2", "0", Ch.ri, Ch.xia, Ch.wuN, "3", Ch.dian>>,
    <<"0", "9", "9", "9", Ch.nian, "1", Ch.yue, "1", Ch.ri>>,
    <<"2", "0", "2", "4", Ch.nian, "2", Ch.yue, "2", "9", Ch.hao, " ", "1", "0", ":", "0", "0">>,
    <<"3", Ch.xiao, Ch.shiH, Ch.hou>>, <<Ch.san, Ch.ge, Ch.xiao, Ch.shiH, Ch.hou>>,
    <<"3", "0", Ch.fen, Ch.zhong, Ch.hou>>, <<Ch.shi, Ch.wu, Ch.fen, Ch.zhong, Ch.hou>>,
    <<"0", Ch.xiao, Ch.shiH, Ch.hou, "3", "0", Ch.fen, Ch.zhong, Ch.hou>>,
    <<>>, <<" ">>, <<"x", "x">>,
    <<"2", "0", "2", "6", "-", "0", "2", "-", "2", "0">>,
    <<"2", "0", "2", "6", "/", "0", "2", "/", "2", "0", " ", "1", "8", ":", "0", "0", ":", "3", "0">>,
    <<"2", "0", "2", "6", "-", "0", "2", "-", "2", "0", " ", "1", "8", ":", "0", "0", "x">>,
    <<"2", "0", "2", "6", "-", "0", "2", "-", "2", "0", "U+0009", "1", "8", ":", "0", "0">>,
    <<"U+FF12", "U+FF10", "U+FF12", "U+FF16", "-", "0", "2", "-", "2", "U+0663", " ", "1", "8", ":", "0", "0">>,
    <<"2", "0", "2", "6", "-", "U+0662", "-", "2", "0">>,
    <<"2", "0", "2", "6", Ch.nian, "U+0009", "2", Ch.yue, "U+000A", "2", "0", Ch.ri>>,
    <<"U+000A", Ch.ming, Ch.tian, "U+3000">>, <<"U+0009", "U+00A0">> }

\* the fields <<year, month, day, hour, minute>> of the YYYY-MM-DD HH:MM texts
IsoFields ==
  { d \o tm :
      d \in { <<2026, 2, 20>>, <<2024, 2, 29>>, <<2026, 2, 29>>, <<2026, 2, 30>>,
              <<2026, 13, 1>>, <<2026, 0, 10>>, <<2026, 12, 31>>, <<2026, 4, 31>>,
              <<999, 1, 1>>, <<0, 1, 1>> },
      tm \in {<<18, 0>>, <<0, 0>>, <<23, 59>>, <<24, 0>>, <<10, 60>>} }

IsoText(f) ==
  ZeroPad(Decimal(f[1]), 4) \o <<"-">> \o ZeroPad(Decimal(f[2]), 2) \o <<"-">>
  \o ZeroPad(Decimal(f[3]), 2) \o <<" ">> \o ZeroPad(Decimal(f[4]), 2) \o <<":">>
  \o ZeroPad(Decimal(f[5]), 2)

\* the tokens cn_to_int is applied to: the canonical numerals of 1..99, and
\* 零 〇〇 二三 两 一百 x 三x x十 十x 十百 二三十 十二三 十十 拾十 拾 二拾五 7 007 0
\* ３ ٣ ١7 (decimal digits of other scripts) ² 1² (digits that are not decimal)
\* and the numeral of MaxStrDigits + 1 digits
CnTokens ==
  {ToCn(n) : n \in 1..99}
  \cup { <<Ch.ling>>, <<Ch.ling0, Ch.ling0>>, <<Ch.er, Ch.san>>, <<Ch.liang>>,
         <<Ch.yi, Ch.bai>>, <<"x">>, <<Ch.san, "x">>, <<"x", Ch.shi>>, <<Ch.shi, "x">>,
         <<Ch.shi, Ch.bai>>, <<Ch.er, Ch.san, Ch.shi>>, <<Ch.shi, Ch.er, Ch.san>>,
         <<Ch.shi, Ch.shi>>, <<Ch.shiF, Ch.shi>>, <<Ch.shiF>>, <<Ch.er, Ch.shiF, Ch.wu>>,
         <<"7">>, <<"0", "0", "7">>, <<"0">>,
         <<"U+FF13">>, <<"U+0663">>, <<"U+0661", "7">>, <<"U+00B2">>, <<"1", "U+00B2">>,
         LongNumeral }

\* the parts of the lexical time texts: a leading period word, the hour
\* numeral and its value, the minute part and its value (-1: none), 半, and a
\* period word after the time; one hour is a fullwidth digit between a tab
\* and an ideographic space, one minute part has Arabic-Indic digits after a
\* newline and before a no-break space
LexParts ==
  [ periods |-> { <<>>, <<Ch.lingC, Ch.chen>>, <<Ch.zao, Ch.shang>>, <<Ch.zao, Ch.chen>>,
                  <<Ch.shang, Ch.wuN>>, <<Ch.zhongM, Ch.wuN>>, <<Ch.xia, Ch.wuN>>,
                  <<Ch.bang, Ch.wan>>, <<Ch.wan, Ch.shang>>, <<Ch.wan>> },
    hours |-> { <<<<"3">>, 3>>, <<<<"1", "2">>, 12>>, <<<<Ch.shi, Ch.er>>, 12>>,
                <<<<Ch.liang>>, 2>>, <<<<"1", "5">>, 15>>,
                <<<<"U+0009", "U+FF13", "U+3000">>, 3>> },
    minutes |-> { <<<<>>, -1>>, <<<<"2", "0">>, 20>>, <<<<Ch.shi, Ch.wu, Ch.fen>>, 15>>,
                  <<<<"5", Ch.fen>>, 5>>,
                  <<<<"U+000A", "U+0662", "U+0665", "U+00A0", Ch.fen>>, 25>> },
    halves |-> {<<>>, <<Ch.ban>>},
    after |-> {<<>>, <<Ch.xia, Ch.wuN>>, <<Ch.lingC, Ch.chen>>} ]

LexText(p, h, m, s, a) == p \o h[1] \o <<Ch.dian>> \o m[1] \o s \o a

LexTexts ==
  { LexText(p, h, m, s, a) :
      p \in LexParts.periods, h \in LexParts.hours, m \in LexParts.minutes,
      s \in LexParts.halves, a \in LexParts.after }

\* the words of the texts _extract_content_and_time is applied to: 明天
\* 下午三点 25点 2月30日 2026-02-20 18:00 ab c
ExtractWords ==
  { <<Ch.ming, Ch.tian>>, <<Ch.xia, Ch.wuN, Ch.san, Ch.dian>>, <<"2", "5", Ch.dian>>,
    <<"2", Ch.yue, "3", "0", Ch.ri>>,
    <<"2", "0", "2", "6", "-", "0", "2", "-", "2", "0">>, <<"1", "8", ":", "0", "0">>,
    <<"a", "b">>, <<"c">> }

\* one to three words separated by one blank, some with more blanks, and
\* some with an ideographic space, a tab, a newline and a carriage return as
\* the blanks
ExtractTexts ==
  ExtractWords
  \cup {Join(<<v, w>>) : v \in ExtractWords, w \in ExtractWords}
  \cup {Join(<<u, v, w>>) : u \in ExtractWords, v \in ExtractWords, w \in ExtractWords}
  \cup {<<" ">> \o Join(<<v, <<>>, w>>) \o <<" ">> : v \in ExtractWords, w \in ExtractWords}
  \cup {<<"U+3000">> \o v \o <<"U+0009", "U+000A">> \o w \o <<"U+000D">> :
          v \in ExtractWords, w \in ExtractWords}
  \cup {<<>>, <<" ", " ">>}

\* timedelta(days, seconds) between the instant and now in format_relative
Offsets ==
  { <<d, sec>> : d \in {0, 1, 2, 400},
                 sec \in {0, 1, 59, 60, 3599, 3600, 7200, 86399} }

\* <<dt, now>> of format_relative: any two base instants, a base instant
\* and one an offset later in either order, and None
RelativePairs ==
  (Bases \X Bases)
  \cup {<<AddTime(b, o[1], o[2]), b>> : b \in Bases, o \in Offsets}
  \cup {<<b, AddTime(b, o[1], o[2])>> : b \in Bases, o \in Offsets}
  \cup {<<None, b>> : b \in Bases}

\* the duration forms: <N>小时后, <N>个小时后 and <N>分钟后 with N in 1..99 in
\* digits and as a Chinese numeral
DurationUnits ==
  {<<Ch.xiao, Ch.shiH, Ch.hou>>, <<Ch.ge, Ch.xiao, Ch.shiH, Ch.hou>>,
   <<Ch.fen, Ch.zhong, Ch.hou>>}

DurationTexts ==
  {Decimal(n) \o u : n \in 1..99, u \in DurationUnits}
  \cup {ToCn(n) \o u : n \in 1..99, u \in DurationUnits}

\* the duration forms that are put before and after a date phrase or a time
\* of day: 3小时后 三个小时后 30分钟后 十五分钟后
MixedDurations ==
  { <<"3", Ch.xiao, Ch.shiH, Ch.hou>>, <<Ch.san, Ch.ge, Ch.xiao, Ch.shiH, Ch.hou>>,
    <<"3", "0", Ch.fen, Ch.zhong, Ch.hou>>, <<Ch.shi, Ch.wu, Ch.fen, Ch.zhong, Ch.hou>> }

MixedDurationTexts ==
  {d \o p : d \in MixedDurations, p \in DatePhrases \cup TimePhrases}
  \cup {p \o d : d \in MixedDurations, p \in DatePhrases \cup TimePhrases}

Texts ==
  DatePhrases \cup TimePhrases \cup ComboTexts \cup FallThroughTexts \cup MonthDayTexts
  \cup {IsoText(f) : f \in IsoFields} \cup OtherTexts \cup LongTexts

(***************************************************************************)
(* The state machine: each action is one call, and the state holds the     *)
(* call's arguments and what it returned.                                  *)
(***************************************************************************)
\* no function of the parser has been called
NoCall ==
  /\ op = "init"
  /\ text = <<>>
  /\ base = None
  /\ result = None
  /\ prev = None

Init ==
  /\ NoCall
  /\ SchedStart(DefaultReportTime, 0, IntervalSeconds(30, 2))
  /\ StoreStart

\* result = parse_time(text, base)
ParseTime ==
  /\ op = "init"
  /\ \E t \in Texts, b \in Bases :
       /\ text' = t
       /\ base' = b
       /\ result' = parse_time(t, b)
  /\ op' = "parse_time"
  /\ UNCHANGED <<prev, schedVars, storeVars>>

\* result = _parse_relative_date(text, base)
ParseRelativeDate ==
  /\ op = "init"
  /\ \E t \in DatePhrases \cup FallThroughTexts \cup TimePhrases \cup LongTexts, b \in Bases :
       /\ text' = t
       /\ base' = b
       /\ result' = parse_relative_date(t, b)
  /\ op' = "_parse_relative_date"
  /\ UNCHANGED <<prev, schedVars, storeVars>>

\* result = _parse_time_of_day(text)
ParseTimeOfDay ==
  /\ op = "init"
  /\ \E t \in TimePhrases \cup ComboTexts \cup DatePhrases \cup MonthDaySuffixes \cup LexTexts :
       /\ text' = t
       /\ result' = parse_time_of_day(t)
  /\ op' = "_parse_time_of_day"
  /\ UNCHANGED <<base, prev, schedVars, storeVars>>

\* result = cn_to_int(text)
CnToInt ==
  /\ op = "init"
  /\ \E t \in CnTokens :
       /\ text' = t
       /\ result' = IF cn_to_int(t) = NoInt THEN None
                    ELSE IF cn_to_int(t) = IntValueError THEN ValueError
                    ELSE [kind |-> "int", value |-> cn_to_int(t)]
  /\ op' = "cn_to_int"
  /\ UNCHANGED <<base, prev, schedVars, storeVars>>

\* result = _extract_content_and_time(text), base the value of datetime.now()
ExtractContentAndTime ==
  /\ op = "init"
  /\ \E t \in ExtractTexts, b \in Bases :
       /\ text' = t
       /\ base' = b
       /\ result' = extract_content_and_time(t, b)
  /\ op' = "_extract_content_and_time"
  /\ UNCHANGED <<prev, schedVars, storeVars>>

\* result = format_relative(prev) when datetime.now() returns base
FormatRelative ==
  /\ op = "init"
  /\ \E p \in RelativePairs :
       /\ prev' = p[1]
       /\ base' = p[2]
       /\ result' = [kind |-> "str", value |-> format_relative(p[1], p[2])]
  /\ op' = "format_relative"
  /\ UNCHANGED <<text, schedVars, storeVars>>

\* text = format_time(t) for what parse_time returned, an instant or None
FormatTime ==
  /\ op = "parse_time"
  /\ ~IsRaise(result)
  /\ \E padsYear \in BOOLEAN : text' = format_time(result, padsYear)
  /\ prev' = result
  /\ result' = None
  /\ base' = None
  /\ op' = "format_time"
  /\ UNCHANGED <<schedVars, storeVars>>

\* result = parse_time(text, base') for the text of format_time and any base'
Reparse ==
  /\ op = "format_time"
  /\ \E b \in Bases :
       /\ base' = b
       /\ result' = parse_time(text, b)
  /\ op' = "reparse"
  /\ UNCHANGED <<text, prev, schedVars, storeVars>>

Next ==
  \/ FormatRelative
  \/ CnToInt
  \/ ParseTimeOfDay
  \/ ParseRelativeDate
  \/ ParseTime
  \/ ExtractContentAndTime
  \/ FormatTime
  \/ Reparse

Spec == Init /\ [][Next]_vars

\* result = parse_time(text, base) for a duration form, alone or with a date
\* phrase or a time of day
ParseDurationText ==
  /\ op = "init"
  /\ \E t \in DurationTexts \cup MixedDurationTexts, b \in Bases :
       /\ text' = t
       /\ base' = b
       /\ result' = parse_time(t, b)
  /\ op' = "parse_time"
  /\ UNCHANGED <<prev, schedVars, storeVars>>

DurationNext == ParseDurationText

DurationSpec == Init /\ [][DurationNext]_vars


(***************************************************************************)
(* The scheduler's state machine.                                          *)
(***************************************************************************)
\* the values of daily_report_time: one that is not a time, the default, and
\* a minute after the default
ReportTimes == {Invalid, DefaultReportTime, DefaultReportTime + 60}

\* the times at which the plugin is started: before and at the default
\* report time
StartTimes == {DefaultReportTime - 30, DefaultReportTime - 10, DefaultReportTime}

\* the intervals of the configurations: the default, and
\* reminder_advance_minutes = 2 with overdue_check_interval_hours = 1
Intervals == {IntervalSeconds(30, 2), IntervalSeconds(2, 1)}

SchedInit ==
  /\ NoCall
  /\ \E r \in ReportTimes, t \in StartTimes, every \in Intervals : SchedStart(r, t, every)
  /\ StoreStart

\* task t can run: it was just created, its sleep is over, or CancelledError
\* waits to be thrown into it
Runnable(t) ==
  \/ pc[t] = "created"
  \/ pc[t] \in {"initial_sleep", "sleep", "retry_sleep"} /\ wait[t] = 0
  \/ cancelled[t] /\ pc[t] # "done"

\* task t goes to the await point and sleep of the pair to
GoTo(t, to) ==
  /\ pc' = [pc EXCEPT ![t] = to[1]]
  /\ wait' = [wait EXCEPT ![t] = to[2]]

\* the coroutine of task t starts: the daily loop computes its first wait,
\* an interval loop sleeps 30 seconds
Begin(t) ==
  /\ pc[t] = "created" /\ ~cancelled[t]
  /\ GoTo(t, IF t = "daily" THEN DailyIteration(clock, report_time)
             ELSE <<"initial_sleep", SleepSeconds.initial>>)
  /\ UNCHANGED <<parserVars, storeVars, clock, report_time, interval, fails, cancelled, tasks, terminating,
                 cancel_calls>>

\* a sleep of task t is over: the callback is called, or the daily loop
\* starts over after the sleep of line 98.  The callback of the reminder task
\* is _on_reminder_check, which runs up to its first await of send_message, or
\* to its end.
Wake(t) ==
  /\ pc[t] \in {"initial_sleep", "sleep", "retry_sleep"} /\ wait[t] = 0 /\ ~cancelled[t]
  /\ GoTo(t, IF t = "daily" /\ pc[t] = "retry_sleep"
             THEN DailyIteration(clock, report_time)
             ELSE <<"callback", 0>>)
  /\ IF t = "reminder"
     THEN /\ RcGoesOn(RcScan(store_keys, data, now, tried))
          /\ UNCHANGED <<now, next_id, store_keys, data, file, sent>>
     ELSE UNCHANGED storeVars
  /\ UNCHANGED <<parserVars, clock, report_time, interval, fails, cancelled, tasks, terminating,
                 cancel_calls>>

\* the callback of task t returns; _on_reminder_check does not while it awaits
\* send_message
CallbackReturns(t) ==
  /\ pc[t] = "callback" /\ ~cancelled[t]
  /\ t = "reminder" => rc.at = "idle"
  /\ GoTo(t, AfterCallback(t, clock, report_time, interval))
  /\ fails' = [fails EXCEPT ![t] = 0]
  /\ UNCHANGED <<parserVars, storeVars, clock, report_time, interval, cancelled, tasks, terminating, cancel_calls>>

\* the callback of task t raises an Exception; _on_reminder_check does not
\* while it awaits send_message
CallbackRaises(t) ==
  /\ pc[t] = "callback" /\ ~cancelled[t]
  /\ t = "reminder" => rc.at = "idle"
  /\ fails[t] < MaxFails
  /\ GoTo(t, AfterCallbackRaised(t, clock, report_time, interval))
  /\ fails' = [fails EXCEPT ![t] = fails[t] + 1]
  /\ UNCHANGED <<parserVars, storeVars, clock, report_time, interval, cancelled, tasks, terminating, cancel_calls>>

\* CancelledError is thrown into task t at its await point.  When that is the
\* send_message that _on_reminder_check awaits (main.py line 519), the except
\* Exception of line 528 does not take it: the check ends there, the messages
\* it had yet to send are not sent and the keys it had yet to look at are not
\* looked at.
Deliver(t) ==
  /\ cancelled[t] /\ pc[t] # "done"
  /\ GoTo(t, <<OnCancelled(pc[t]), 0>>)
  /\ cancelled' = [cancelled EXCEPT ![t] = FALSE]
  /\ rc' = IF t = "reminder" THEN RcIdle ELSE rc
  /\ ret' = NoReturn
  /\ cleared' = {}
  /\ UNCHANGED <<parserVars, clock, report_time, interval, fails, tasks, terminating, cancel_calls,
                 now, next_id, store_keys, data, file, sent, tried>>

\* task t is in a sleep that is not over
Sleeping(t) == pc[t] \in {"initial_sleep", "sleep", "retry_sleep"} /\ wait[t] > 0

\* the time until the next sleep is over
NextTimer == SetMin({wait[t] : t \in {u \in TaskSet : Sleeping(u)}})

\* time passes while no task can run, until the asyncio.sleep that ends next
\* is over: the clock is that much later, every sleep has that much less to
\* go, and only the sleeps that had just that much left are over.  A callback
\* that is in progress stays in progress; it returns or raises before time
\* passes or after it.
TimePasses ==
  /\ \A t \in TaskSet : ~Runnable(t)
  /\ \E t \in TaskSet : Sleeping(t)
  /\ clock + NextTimer <= DefaultReportTime + Horizon
  /\ clock' = clock + NextTimer
  /\ wait' = [t \in TaskSet |-> IF Sleeping(t) THEN wait[t] - NextTimer ELSE wait[t]]
  /\ UNCHANGED <<parserVars, storeVars, report_time, interval, pc, fails, cancelled, tasks,
                 terminating, cancel_calls>>

\* Scheduler.cancel_all()
CancelAll ==
  /\ cancel_calls < MaxCancels
  /\ cancelled' = CancelRequests(tasks, pc, cancelled)
  /\ tasks' = <<>>
  /\ cancel_calls' = cancel_calls + 1
  /\ UNCHANGED <<parserVars, storeVars, clock, report_time, interval, pc, wait, fails, terminating>>

\* TodoPlugin.terminate(): cancel_all(), then wait_all() over the self._tasks
\* that cancel_all left; it returns when wait_all has nothing to await
Terminate ==
  /\ terminating = "no"
  /\ cancel_calls < MaxCancels
  /\ cancelled' = CancelRequests(tasks, pc, cancelled)
  /\ tasks' = <<>>
  /\ cancel_calls' = cancel_calls + 1
  /\ terminating' = IF Awaited(tasks', pc) = {} THEN "returned" ELSE "wait_all"
  /\ ret' = NoReturn
  /\ cleared' = {}
  /\ UNCHANGED <<parserVars, clock, report_time, interval, pc, wait, fails,
                 now, next_id, store_keys, data, file, rc, sent, tried>>

SchedNext ==
  \/ \E t \in TaskSet : Begin(t)
  \/ \E t \in TaskSet : Wake(t)
  \/ \E t \in TaskSet : CallbackReturns(t)
  \/ \E t \in TaskSet : CallbackRaises(t)
  \/ \E t \in TaskSet : Deliver(t)
  \/ TimePasses
  \/ CancelAll
  \/ Terminate

SchedSpec == SchedInit /\ [][SchedNext]_vars

(***************************************************************************)
(* The store's state machines: the commands that change the store, the     *)
(* reminder check from one await of send_message to the next, and time.    *)
(***************************************************************************)
\* a call of the data manager returns: what it leaves in ret
Return(ids) == ret' = ids /\ cleared' = {}

\* self._data[key] = ...: a key that is new comes last
WithKey(k) ==
  IF \E i \in 1..Len(store_keys) : store_keys[i] = k THEN store_keys
  ELSE Append(store_keys, k)

\* /todo add: add_todo(k, content, deadline)
AddTodo(k, deadline) ==
  /\ next_id <= MaxIds
  /\ data' = [data EXCEPT ![k] = Append(@, TodoItem(next_id, deadline))]
  /\ store_keys' = WithKey(k)
  /\ file' = Saved(WithKey(k), data')
  /\ next_id' = next_id + 1
  /\ Return({next_id})
  /\ UNCHANGED <<parserVars, schedVars, now, rc, sent, tried>>

\* /todo done: mark_done(k, index)
MarkDone(k, index) ==
  /\ IF OutOfRange(data[k], index)
     THEN /\ Return({})
          /\ UNCHANGED <<data, file>>
     ELSE /\ Return({data[k][TargetPosition(data[k], index)].id})
          /\ data' = [data EXCEPT ![k][TargetPosition(data[k], index)] =
                                     [@ EXCEPT !.done = TRUE, !.done_at = now]]
          /\ file' = Saved(store_keys, data')
  /\ UNCHANGED <<parserVars, schedVars, now, next_id, store_keys, rc, sent, tried>>

\* /todo del: delete_todo(k, index)
DeleteTodo(k, index) ==
  /\ IF OutOfRange(data[k], index)
     THEN /\ Return({})
          /\ UNCHANGED <<data, file>>
     ELSE /\ Return({data[k][TargetPosition(data[k], index)].id})
          /\ data' = [data EXCEPT ![k] = Remove(@, TargetPosition(data[k], index))]
          /\ file' = Saved(store_keys, data')
  /\ UNCHANGED <<parserVars, schedVars, now, next_id, store_keys, rc, sent, tried>>

\* /todo remind: set_custom_reminder(k, index, reminder_time)
SetCustomReminder(k, index, reminder_time) ==
  /\ IF OutOfRange(data[k], index)
     THEN /\ Return({})
          /\ UNCHANGED <<data, file>>
     ELSE /\ Return({data[k][TargetPosition(data[k], index)].id})
          /\ data' = [data EXCEPT ![k][TargetPosition(data[k], index)].custom_reminder
                                    = reminder_time]
          /\ file' = Saved(store_keys, data')
  /\ UNCHANGED <<parserVars, schedVars, now, next_id, store_keys, rc, sent, tried>>

\* /todo history_clear: clear_done(k)
ClearDone(k) ==
  /\ data' = [data EXCEPT ![k] = get_todos(@)]
  /\ store_keys' = WithKey(k)
  /\ file' = Saved(WithKey(k), data')
  /\ ret' = {}
  /\ cleared' = {Len(data[k]) - Len(get_todos(data[k]))}
  /\ UNCHANGED <<parserVars, schedVars, now, next_id, rc, sent, tried>>

\* set_reminded(k, n)
SetReminded(k, n) ==
  /\ data' = [data EXCEPT ![k] = MarkReminded(@, n)]
  /\ store_keys' = WithKey(k)
  /\ file' = Saved(WithKey(k), data')
  /\ Return({})
  /\ UNCHANGED <<parserVars, schedVars, now, next_id, rc, sent, tried>>

\* the reminder task calls _on_reminder_check: it runs up to its first await
\* of send_message, or to its end.  The sleeps of the task are left out here:
\* the call comes at any time, as long as the task has not ended and no
\* CancelledError waits to be thrown into it.
ReminderCheck ==
  /\ rc.at = "idle"
  /\ pc["reminder"] # "done" /\ ~cancelled["reminder"]
  /\ RcGoesOn(RcScan(store_keys, data, now, tried))
  /\ UNCHANGED <<parserVars, schedVars, now, next_id, store_keys, data, file, sent>>

\* send_message (line 519) returns: lines 520-527, and on to the next await
SendReturns ==
  /\ rc.at = "send_message" /\ ~cancelled["reminder"]
  /\ sent' = sent \cup {<<"custom", Head(rc.items).id>>}
  /\ data' = [data EXCEPT ![rc.key] =
                ClearCustomReminder(ItemsRead(@, rc.items), Head(rc.items).id)]
  /\ file' = Saved(store_keys, data')
  /\ RcGoesOn(RcContinue(rc, data', now, tried))
  /\ UNCHANGED <<parserVars, schedVars, now, next_id, store_keys>>

\* send_message (line 519) raises an Exception: line 529, and on to the next
\* await
SendRaises ==
  /\ rc.at = "send_message" /\ ~cancelled["reminder"]
  /\ RcGoesOn(RcContinue(rc, data, now, tried))
  /\ UNCHANGED <<parserVars, schedVars, now, next_id, store_keys, data, file, sent>>

\* time passes
Advance ==
  /\ now < MaxTime
  /\ now' = now + 1
  /\ ret' = NoReturn
  /\ cleared' = {}
  /\ UNCHANGED <<parserVars, schedVars, next_id, store_keys, data, file, rc, sent, tried>>

\* the commands, with todos that have no deadline
StoreNext ==
  \/ \E k \in Keys : AddTodo(k, NoTime)
  \/ \E k \in Keys : \E index \in 0..(Len(data[k]) + 1) : MarkDone(k, index)
  \/ \E k \in Keys : \E index \in 0..(Len(data[k]) + 1) : DeleteTodo(k, index)
  \/ \E k \in Keys : \E index \in 0..(Len(data[k]) + 1), t \in ReminderTimes :
       SetCustomReminder(k, index, t)
  \/ \E k \in Keys : ClearDone(k)

StoreSpec == Init /\ [][StoreNext]_vars

\* the commands, with deadlines too, the reminder check, the plugin's end
\* while a check awaits send_message, and time; no command is given to a
\* plugin that has ended
ReminderNext ==
  \/ (terminating = "no" /\ StoreNext)
  \/ (terminating = "no" /\ \E k \in Keys, deadline \in Deadlines : AddTodo(k, deadline))
  \/ ReminderCheck
  \/ SendReturns
  \/ SendRaises
  \/ (rc.at = "send_message" /\ Terminate)
  \/ Deliver("reminder")
  \/ Advance

ReminderSpec == Init /\ [][ReminderNext]_vars

\* the commands with todos that have no deadline, the reminder check, the
\* plugin's end while a check awaits send_message, and time: the custom
\* reminders; no command is given to a plugin that has ended
CustomReminderNext ==
  \/ (terminating = "no" /\ StoreNext)
  \/ ReminderCheck
  \/ SendReturns
  \/ SendRaises
  \/ (rc.at = "send_message" /\ Terminate)
  \/ Deliver("reminder")
  \/ (now < ReminderAdvance /\ Advance)

CustomReminderSpec == Init /\ [][CustomReminderNext]_vars

\* the commands and set_reminded, with todos that have no deadline, and time:
\* the data manager
DataNext ==
  \/ StoreNext
  \/ \E k \in Keys, n \in 1..MaxIds : SetReminded(k, n)
  \/ (now < ReminderAdvance /\ Advance)

DataSpec == Init /\ [][DataNext]_vars

(***************************************************************************)
(* Properties of the time parser.                                          *)
(***************************************************************************)
\* C1: parse_time never raises: for every text and every base it returns an
\* instant or None, also when the matched numbers are outside calendar or
\* clock range (2026年2月30日, 2月30日, 13月1日, 明天25:99, 下午25点).
C1_NeverRaises == op = "parse_time" => ~IsRaise(result)

\* C2: for every text of the shape YYYY-MM-DD HH:MM and every base,
\* parse_time returns the instant with exactly those fields (seconds 0) when
\* they form a valid date and time, and None when they do not.
C2_StandardFormatExact ==
  \A f \in IsoFields :
    (op = "parse_time" /\ text = IsoText(f)) =>
      IF IsDatetime(MkDatetime(f[1], f[2], f[3], f[4], f[5], 0, 0))
      THEN result = MkDatetime(f[1], f[2], f[3], f[4], f[5], 0, 0)
      ELSE result = None

\* C3: for every base and weekday X, parse_time(下周X) is midnight of weekday
\* X in the Monday-to-Sunday week that follows the week of base: the Monday
\* after base's week is 7 - weekday(base) days after base's day.
C3_NextWeekIsFollowingWeek ==
  \A x \in WeekdayClass :
    (op = "parse_time" /\ text = <<Ch.xia, Ch.zhou, x>>) =>
      result = AddDays(Midnight(base), (7 - Weekday(base)) + WEEKDAY_MAP[x])

\* C4: for every base and weekday X, the date resolved for 下周X is 7 to 13
\* days after base's day, the date resolved for 这周X, 本周X and 周X is 0 to 6
\* days after it (0 exactly when base falls on weekday X), and both are on
\* weekday X at 00:00.
C4_WeekOffsets ==
  \A x \in WeekdayClass :
    /\ (op \in {"_parse_relative_date", "parse_time"} /\ text = <<Ch.xia, Ch.zhou, x>>) =>
         /\ IsDatetime(result)
         /\ Ordinal(result) - Ordinal(base) \in 7..13
         /\ Weekday(result) = WEEKDAY_MAP[x]
         /\ <<result.hour, result.minute, result.second, result.microsecond>> = <<0, 0, 0, 0>>
    /\ ( /\ op \in {"_parse_relative_date", "parse_time"}
         /\ text \in {<<Ch.zhe, Ch.zhou, x>>, <<Ch.ben, Ch.zhou, x>>, <<Ch.zhou, x>>} ) =>
         /\ IsDatetime(result)
         /\ Ordinal(result) - Ordinal(base) \in 0..6
         /\ (Ordinal(result) = Ordinal(base)) <=> (Weekday(base) = WEEKDAY_MAP[x])
         /\ Weekday(result) = WEEKDAY_MAP[x]
         /\ <<result.hour, result.minute, result.second, result.microsecond>> = <<0, 0, 0, 0>>

\* 下周一 was resolved from Wednesday 2026-02-18 10:00: Monday 2026-03-02 00:00,
\* 12 days after base's day
C4_NextMondayFromWednesday ==
  /\ op = "_parse_relative_date"
  /\ text = <<Ch.xia, Ch.zhou, Ch.yi>>
  /\ base = MkDatetime(2026, 2, 18, 10, 0, 0, 0)
  /\ result = MkDatetime(2026, 3, 2, 0, 0, 0, 0)

\* C5: for a text with a time of day and no date phrase, parse_time returns
\* that time (seconds 0) on base's day when that is strictly after base, else
\* on the next day: the result is strictly after base and at most 24 hours
\* after it.
C5_TimeOnlyIsNextOccurrence ==
  (op = "parse_time" /\ text \in TimePhrases) =>
    /\ IsDatetime(result)
    /\ result.hour = parse_time_of_day(text).hour
    /\ result.minute = parse_time_of_day(text).minute
    /\ result.second = 0 /\ result.microsecond = 0
    /\ DtLess(base, result)
    /\ ~DtLess(AddDays(base, 1), result)

\* C6: for every base and every year-less M月D日 text, with or without a time
\* of day after it, parse_time returns an instant on month M, day D that is
\* not before base: in base's year when that day's midnight is not before
\* base, else in the following year.
C6_MonthDayIsNextOccurrence ==
  \A md \in MonthDays, s \in MonthDaySuffixes :
    (op = "parse_time" /\ text = MonthDayText(md, s)) =>
      /\ IsDatetime(result)
      /\ result.month = md[1] /\ result.day = md[2]
      /\ ~DtLess(result, base)
      /\ result.year = IF DtLess(MkDatetime(base.year, md[1], md[2], 0, 0, 0, 0), base)
                       THEN base.year + 1 ELSE base.year

\* C7: for a text made of a relative date phrase and a time of day, in either
\* order, parse_time returns what the date phrase resolves to with its hour
\* and minute replaced by those of the time of day.
C7_DateAndTimeEitherOrder ==
  \A d \in ComboDates, t \in TimePhrases :
    (op = "parse_time" /\ (text = d \o t \/ text = t \o d)) =>
      result = ReplaceHM(parse_relative_date(d, base),
                         parse_time_of_day(t).hour, parse_time_of_day(t).minute)

\* C8: every (hour, minute) that _parse_time_of_day returns has hour in 0..23
\* and minute in 0..59.
C8_TimeOfDayInRange ==
  (op = "_parse_time_of_day" /\ result # None) =>
    (result.hour \in 0..23 /\ result.minute \in 0..59)

\* C9: when parse_time(s, base) returned the instant t, then
\* parse_time(format_time(t), base') returns t with second and microsecond 0,
\* for any base'.
C9_FormatParseRoundTrip ==
  (op = "reparse" /\ IsDatetime(prev)) =>
    result = [prev EXCEPT !.second = 0, !.microsecond = 0]

\* C10: when the numeral of a matched N天后 phrase does not convert (0天后,
\* 一百天后), parse_time goes on to the patterns of lower priority: the text is
\* resolved by the 下周X / 周X phrase that follows.
C10_FallsThroughToNextPattern ==
  \A f \in FailingDaysLater, d \in {<<Ch.xia, Ch.zhou, Ch.yi>>, <<Ch.zhou, Ch.wu>>} :
    (op = "parse_time" /\ text = f \o d) => result = parse_relative_date(d, base)


\* C11: for a text N天后 or N日后, N written in digits or in Chinese numerals,
\* 一百 among them, the relative-date resolver returns the midnight of base's
\* day plus N days.
C11_DaysLaterIsMidnightPlusN ==
  \A n \in {<<Decimal(k), k>> : k \in 1..MaxN}
           \cup {<<<<Ch.san>>, 3>>, <<<<Ch.shi, Ch.wu>>, 15>>, <<<<Ch.yi, Ch.bai>>, 100>>},
     u \in {Ch.tian, Ch.ri} :
    (op \in {"_parse_relative_date", "parse_time"} /\ text = n[1] \o <<u, Ch.hou>>) =>
      result = AddDays(Midnight(base), n[2])

\* C12: for every n in 1..99, cn_to_int of the canonical Chinese numeral of n
\* is n.
C12_CanonicalNumeralRoundTrip ==
  \A n \in 1..99 :
    (op = "cn_to_int" /\ text = ToCn(n)) => result = [kind |-> "int", value |-> n]

\* cn_to_int was applied to 二十三 and returned 23
C12_TwentyThree ==
  /\ op = "cn_to_int"
  /\ text = <<Ch.er, Ch.shi, Ch.san>>
  /\ result = [kind |-> "int", value |-> 23]

\* a malformed numeral token: not empty and either not all ASCII digits and
\* with a character that is not a numeral character, or with a ten character
\* whose part before or after it is neither empty nor one character of value
\* 0..9
MalformedNumeral(t) ==
  /\ t # <<>>
  /\ \/ /\ \E i \in 1..Len(t) : t[i] \notin AsciiDigits
        /\ \E i \in 1..Len(t) : t[i] \notin DOMAIN CN_NUM_MAP
     \/ \E i \in 1..Len(t) :
          /\ t[i] \in {Ch.shi, Ch.shiF}
          /\ \E part \in {SubSeq(t, 1, i - 1), SubSeq(t, i + 1, Len(t))} :
               /\ part # <<>>
               /\ ~(Len(part) = 1 /\ CnGet(part, NoInt) \in 0..9)

\* C13: cn_to_int returns None for every malformed numeral token.
C13_MalformedNumeralIsNone ==
  (op = "cn_to_int" /\ MalformedNumeral(text)) => result = None

\* C14: for a lexical time (period word, hour, 点, minute part, 半, period
\* word), the hour is adjusted by the first period word of the text: 下午 傍晚
\* 晚上 晚 add 12 to an hour below 12, 凌晨 turns 12 into 0, the others change
\* nothing; the minute is 30 with 半, else the minute numeral, else 0.
C14_PeriodAndMinuteRule ==
  op = "_parse_time_of_day" =>
    \A p \in LexParts.periods, h \in LexParts.hours, m \in LexParts.minutes,
       s \in LexParts.halves, a \in LexParts.after :
      text = LexText(p, h, m, s, a) =>
        /\ result.kind = "hm"
        /\ result.hour =
             IF (IF p # <<>> THEN p ELSE a)
                  \in {<<Ch.xia, Ch.wuN>>, <<Ch.bang, Ch.wan>>, <<Ch.wan, Ch.shang>>, <<Ch.wan>>}
                /\ h[2] < 12
             THEN h[2] + 12
             ELSE IF (IF p # <<>> THEN p ELSE a) = <<Ch.lingC, Ch.chen>> /\ h[2] = 12
             THEN 0
             ELSE h[2]
        /\ result.minute = IF s # <<>> THEN 30 ELSE IF m[2] # -1 THEN m[2] ELSE 0

\* _parse_time_of_day was applied to 凌晨12点 and to 下午3点半, with the results
\* 0:00 and 15:30
C14_DawnTwelveOrAfternoonHalf ==
  /\ op = "_parse_time_of_day"
  /\ \/ text = <<Ch.lingC, Ch.chen, "1", "2", Ch.dian>> /\ result = HM(0, 0)
     \/ text = <<Ch.xia, Ch.wuN, "3", Ch.dian, Ch.ban>> /\ result = HM(15, 30)

\* C18: _extract_content_and_time returns (content, time) with a content that
\* is not empty for an input that is not blank: the words after the longest
\* proper prefix of words that parse_time accepts and the time of that prefix,
\* or the whole stripped input and no time when no proper prefix parses.
C18_SplitsAtLongestTimePrefix ==
  op = "_extract_content_and_time" =>
    /\ result.kind = "split"
    /\ Strip(text) # <<>> => result.content # <<>>
    /\ \A i \in 1..(Len(SplitWords(text)) - 1) :
         ( /\ IsDatetime(parse_time(Join(SubSeq(SplitWords(text), 1, i)), base))
           /\ \A j \in (i + 1)..(Len(SplitWords(text)) - 1) :
                ~IsDatetime(parse_time(Join(SubSeq(SplitWords(text), 1, j)), base)) )
         => /\ result.time = parse_time(Join(SubSeq(SplitWords(text), 1, i)), base)
            /\ result.content
                 = Join(SubSeq(SplitWords(text), i + 1, Len(SplitWords(text))))
    /\ (\A i \in 1..(Len(SplitWords(text)) - 1) :
          ~IsDatetime(parse_time(Join(SubSeq(SplitWords(text), 1, i)), base)))
       => result = ContentAndTime(Strip(text), None)

\* C15: when the callback of a scheduler loop raises, the loop does not end:
\* it goes to its usual sleep, an interval loop for its interval and the daily
\* loop until the next report time after now, however many calls failed in a
\* row.
C15_FailedCallbackKeepsSchedule ==
  [][\A t \in TaskSet :
       fails'[t] > fails[t] =>
         /\ pc'[t] = "sleep"
         /\ IF t = "daily"
            THEN wait'[t] \in 1..DayLen /\ (clock + wait'[t]) % DayLen = report_time
            ELSE wait'[t] = interval[t]]_vars

\* the callback of the daily loop has failed and the loop sleeps until the
\* report time of the next day; the callback of the reminder loop has failed
\* MaxFails times in a row and the loop sleeps until its next call
C15_BothLoopsSurviveFailures ==
  /\ fails["daily"] >= 1 /\ pc["daily"] = "sleep"
  /\ fails["reminder"] = MaxFails /\ pc["reminder"] = "sleep"

\* C16: when terminate() has returned, every task of the scheduler has ended.
C16_TerminateWaitsForTasks ==
  terminating = "returned" => \A t \in TaskSet : pc[t] = "done"

\* C17: a second cancel_all changes nothing; after the first cancel_all no
\* callback is called any more, and a task that cancel() was called on ends
\* at the await point it is at.
C17_CancelIsIdempotentAndFinal ==
  [][/\ (cancel_calls' > cancel_calls /\ cancel_calls >= 1) =>
          UNCHANGED <<pc, wait, fails, cancelled, tasks>>
     /\ \A t \in TaskSet :
          /\ cancel_calls >= 1 => ~(pc[t] # "callback" /\ pc'[t] = "callback")
          /\ (cancelled[t] /\ pc'[t] # pc[t]) => pc'[t] = "done"]_vars

\* cancel_all was called twice, after the reminder callback had been called
\* and had failed, and every task has ended
C17_CancelledTwiceAllDone ==
  /\ cancel_calls = MaxCancels
  /\ fails["reminder"] > 0
  /\ \A t \in TaskSet : pc[t] = "done" /\ ~cancelled[t]

\* C19: mark_done, delete_todo and set_custom_reminder take index as the
\* place, from 1, among the undone items of the key in stored order.  With an
\* index out of that range they return None and the data of every key stays
\* as it is; with an index in range they return that item, mark it done at
\* the time of the call, remove it or set its reminder time, and every other item and every other
\* key stays as it is.
C19_IndexedOperations ==
  [][\A k \in Keys : \A index \in 0..(Len(data[k]) + 1) :
       IF index < 1 \/ index > Len(get_todos(data[k]))
       THEN ( \/ MarkDone(k, index)
              \/ DeleteTodo(k, index)
              \/ \E t \in ReminderTimes : SetCustomReminder(k, index, t) )
            => (ret' = {} /\ data' = data)
       ELSE /\ ( \/ MarkDone(k, index)
                 \/ DeleteTodo(k, index)
                 \/ \E t \in ReminderTimes : SetCustomReminder(k, index, t) )
               => /\ ret' = {get_todos(data[k])[index].id}
                  /\ \A other \in Keys \ {k} : data'[other] = data[other]
            /\ MarkDone(k, index) =>
                 data'[k] = [p \in 1..Len(data[k]) |->
                               IF data[k][p].id = get_todos(data[k])[index].id
                               THEN [data[k][p] EXCEPT !.done = TRUE, !.done_at = now]
                               ELSE data[k][p]]
            /\ DeleteTodo(k, index) =>
                 data'[k] = Select(data[k], {i \in Items(data[k]) :
                                               i.id # get_todos(data[k])[index].id})
            /\ \A t \in ReminderTimes :
                 SetCustomReminder(k, index, t) =>
                   data'[k] = [p \in 1..Len(data[k]) |->
                                 IF data[k][p].id = get_todos(data[k])[index].id
                                 THEN [data[k][p] EXCEPT !.custom_reminder = t]
                                 ELSE data[k][p]]]_vars

\* with the first todo of k1 done, an operation with the index 1 returned the
\* second todo, which now has its reminder set
C19_FirstUndoneIsSecondItem ==
  /\ Len(data["k1"]) = 2
  /\ data["k1"][1].done /\ data["k1"][1].custom_reminder = NoTime
  /\ ret = {data["k1"][2].id}
  /\ ~data["k1"][2].done /\ data["k1"][2].custom_reminder # NoTime

\* C20: when a reminder check has ended, every todo that it found due for a
\* deadline reminder has had its reminder sent and has its reminded flag set.
C20_DueTodoIsReminded ==
  rc.at = "idle" =>
    \A n \in tried :
      /\ <<"deadline", n>> \in sent
      /\ \A k \in Keys : \A i \in Items(data[k]) : i.id = n => i.reminded

\* the whole seconds from the instant earlier to the instant later
WholeSeconds(later, earlier) ==
  (Ordinal(later) - Ordinal(earlier)) * 86400
  + SecondOfDay(later) - SecondOfDay(earlier)
  - (IF later.microsecond < earlier.microsecond THEN 1 ELSE 0)

\* C21: format_relative(dt) of an instant dt at or before now is 已逾期D天 with D
\* the whole elapsed days when D >= 1, else 已逾期H小时 with H the whole elapsed
\* hours when H >= 1, else 刚刚逾期; of an instant after now it is D天后到期 with D
\* the whole days ahead when D >= 1, else H小时后到期 with H the whole hours ahead
\* when H >= 1, else M分钟后到期 with M the whole minutes ahead.
C21_RelativeTextByWholeUnits ==
  (op = "format_relative" /\ IsDatetime(prev)) =>
    result.value =
      IF ~DtLess(base, prev)
      THEN IF WholeSeconds(base, prev) \div 86400 >= 1
           THEN <<Ch.yiY, Ch.yu, Ch.qiD>> \o Decimal(WholeSeconds(base, prev) \div 86400)
                \o <<Ch.tian>>
           ELSE IF WholeSeconds(base, prev) \div 3600 >= 1
           THEN <<Ch.yiY, Ch.yu, Ch.qiD>> \o Decimal(WholeSeconds(base, prev) \div 3600)
                \o <<Ch.xiao, Ch.shiH>>
           ELSE <<Ch.gang, Ch.gang, Ch.yu, Ch.qiD>>
      ELSE IF WholeSeconds(prev, base) \div 86400 >= 1
           THEN Decimal(WholeSeconds(prev, base) \div 86400)
                \o <<Ch.tian, Ch.hou, Ch.dao, Ch.qiD>>
           ELSE IF WholeSeconds(prev, base) \div 3600 >= 1
           THEN Decimal(WholeSeconds(prev, base) \div 3600)
                \o <<Ch.xiao, Ch.shiH, Ch.hou, Ch.dao, Ch.qiD>>
           ELSE Decimal(WholeSeconds(prev, base) \div 60)
                \o <<Ch.fen, Ch.zhong, Ch.hou, Ch.dao, Ch.qiD>>

\* an instant 2 hours in the past gives 已逾期2小时
C21_TwoHoursOverdue ==
  /\ op = "format_relative"
  /\ IsDatetime(prev)
  /\ WholeSeconds(base, prev) = 7200
  /\ result.value = <<Ch.yiY, Ch.yu, Ch.qiD, "2", Ch.xiao, Ch.shiH>>

\* C22: parse_time of a text that is exactly <N>小时后, <N>个小时后 or <N>分钟后
\* with N in 1..99 (digits or a Chinese numeral) is base + N hours or base + N
\* minutes, base's seconds kept; a text made of a duration form and a relative
\* date phrase or a time of day is resolved by step 4, whose instants have no
\* seconds, and not by the duration form.
C22_DurationOnlyAfterStepFour ==
  op = "parse_time" =>
    /\ \A n \in 1..99 : \A num \in {Decimal(n), ToCn(n)} :
         /\ text \in {num \o <<Ch.xiao, Ch.shiH, Ch.hou>>,
                      num \o <<Ch.ge, Ch.xiao, Ch.shiH, Ch.hou>>}
              => /\ IsDatetime(result)
                 /\ WholeSeconds(result, base) = n * 3600
                 /\ result.second = base.second
                 /\ result.microsecond = base.microsecond
         /\ text = num \o <<Ch.fen, Ch.zhong, Ch.hou>>
              => /\ IsDatetime(result)
                 /\ WholeSeconds(result, base) = n * 60
                 /\ result.second = base.second
                 /\ result.microsecond = base.microsecond
    /\ \A d \in MixedDurations :
         \A p \in (DatePhrases \cup TimePhrases) \ {<<"0", Ch.tian, Ch.hou>>} :
           text \in {d \o p, p \o d}
             => /\ IsDatetime(result)
                /\ result.second = 0
                /\ result.microsecond = 0

\* C27: for a year-less M月D日 text that names base's own month and day, while
\* base's time of day is after 00:00:00, parse_time returns that date in
\* base.year + 1, with the hour and minute of the time of day after the date
\* when there is one, also when that time of day is still ahead on base's
\* day: the date's midnight is compared to base before the time is merged.
C27_OwnDayRollsToNextYear ==
  \A md \in MonthDays, s \in MonthDaySuffixes \ {<<"2", "5", Ch.dian>>} :
    ( /\ op = "parse_time"
      /\ text = MonthDayText(md, s)
      /\ base.month = md[1] /\ base.day = md[2]
      /\ SecondOfDay(base) > 0 \/ base.microsecond > 0 ) =>
      /\ IsDatetime(result)
      /\ result.year = base.year + 1
      /\ result.month = md[1] /\ result.day = md[2]
      /\ s = <<>> => result.hour = 0 /\ result.minute = 0
      /\ s = <<Ch.xia, Ch.wuN, "3", Ch.dian>> => result.hour = 15 /\ result.minute = 0
      /\ s = <<"9", Ch.dian>> => result.hour = 9 /\ result.minute = 0
      /\ s = <<" ", "2", "3", ":", "5", "9">> => result.hour = 23 /\ result.minute = 59
      /\ result.second = 0 /\ result.microsecond = 0

\* C28: with a valid report time, each iteration of the daily report loop
\* sleeps until the next occurrence of the report time strictly after now:
\* the wait is at least one second and at most a day and ends at the report
\* time, it shrinks only as time passes, and the callback is entered only
\* from that sleep once the wait is over, never at once when the loop starts
\* at the report time.
C28_DailyWaitsForNextReportTime ==
  [][report_time # Invalid =>
       /\ (pc'["daily"] = "sleep" /\ pc["daily"] # "sleep") =>
            /\ wait'["daily"] \in 1..DayLen
            /\ (clock + wait'["daily"]) % DayLen = report_time
       /\ (pc'["daily"] = "sleep" /\ pc["daily"] = "sleep" /\ wait'["daily"] # wait["daily"]) =>
            /\ clock' > clock
            /\ wait'["daily"] = wait["daily"] - (clock' - clock)
       /\ (pc'["daily"] = "callback" /\ pc["daily"] # "callback") =>
            /\ pc["daily"] = "sleep"
            /\ wait["daily"] = 0
            /\ clock % DayLen = report_time]_vars

\* the loop started at the report time and its callback has not been called:
\* it sleeps for a whole day
C28_StartedAtReportTimeSleepsADay ==
  /\ report_time # Invalid
  /\ clock % DayLen = report_time
  /\ pc["daily"] = "sleep"
  /\ wait["daily"] = DayLen
  /\ fails["daily"] = 0

\* C23: a custom reminder fires at most once per setting.  When send_message
\* has returned for a todo, the message is sent and no stored item of that
\* todo's id has a custom_reminder; a message begins to be sent only for a
\* todo whose stored item, if there still is one, has a custom_reminder that
\* is due; when send_message fails the store is left as it is, so that
\* get_custom_reminder_due returns the todo again.
C23_CustomReminderFiresOncePerSetting ==
  [][/\ SendReturns =>
          /\ <<"custom", Head(rc.items).id>> \in sent'
          /\ \A i \in Items(data'[rc.key]) :
               i.id = Head(rc.items).id => i.custom_reminder = NoTime
     /\ (rc' # rc /\ rc'.at = "send_message") =>
          \A i \in Items(data'[rc'.key]) :
            i.id = Head(rc'.items).id =>
              i.custom_reminder # NoTime /\ i.custom_reminder <= now
     /\ SendRaises =>
          /\ sent' = sent
          /\ \A i \in Items(data[rc.key]) :
               (i.id = Head(rc.items).id /\ ~i.done) =>
                 i \in Items(get_custom_reminder_due(data'[rc.key], now'))]_vars

\* the custom reminder of a todo was sent and is cleared in the store, and
\* the send for another todo failed, whose custom_reminder is still set
C23_OneSentAndClearedOneFailed ==
  /\ rc.at = "idle"
  /\ \E k \in Keys : \E i \in Items(data[k]), j \in Items(data[k]) :
       /\ <<"custom", i.id>> \in sent /\ i.custom_reminder = NoTime
       /\ <<"custom", j.id>> \notin sent /\ j.custom_reminder # NoTime
       /\ j.custom_reminder <= now

\* C24: whatever commands run while the reminder check waits for
\* send_message, the check begins to send a reminder only for a todo that is
\* stored and undone at that moment.
C24_RemindsOnlyStoredUndone ==
  [][(rc' # rc /\ rc'.at = "send_message") =>
       \E i \in Items(data'[rc'.key]) : i.id = Head(rc'.items).id /\ ~i.done]_vars

\* C25: no update of the store is lost.  Whatever commands run while the
\* reminder check waits for send_message, a step takes away or changes a
\* stored item only as the operation of that step does: the item the command
\* returns, the done items that clear_done removes, and the item whose
\* custom_reminder the check clears after its message was sent; every other
\* item stays as it is.  And whenever an operation is completed the file holds
\* what is in memory.
C25_NoLostUpdate ==
  /\ [](Loaded(file) = [keys |-> store_keys, data |-> data])
  /\ [][\A k \in Keys : data'[k] # data[k] =>
          /\ \A i \in Items(data[k]) :
               \/ i \in Items(data'[k])
               \/ i.id \in ret'
               \/ i.done /\ cleared' # {} /\ rc' = rc /\ data'[k] = get_todos(data[k])
               \/ /\ rc.at = "send_message" /\ rc' # rc
                  /\ k = rc.key /\ i.id = Head(rc.items).id
                  /\ [i EXCEPT !.custom_reminder = NoTime] \in Items(data'[k])
          /\ \A i \in Items(data'[k]) :
               \/ i \in Items(data[k])
               \/ i.id \in ret'
               \/ /\ rc.at = "send_message" /\ rc' # rc
                  /\ k = rc.key /\ i.id = Head(rc.items).id]_vars

\* the check has sent the reminder of one todo and cleared it, and goes on to
\* the next todo of its list, which a command marked done after the list was
\* read: the store holds the cleared reminder and the done flag, and the file
\* holds what is in memory
C25_CommandDuringSendIsKept ==
  /\ rc.at = "send_message"
  /\ ret = NoReturn
  /\ ~Head(rc.items).done
  /\ \E i \in Items(data[rc.key]), j \in Items(data[rc.key]) :
       /\ i.id # j.id
       /\ <<"custom", i.id>> \in sent /\ i.custom_reminder = NoTime
       /\ j.id = Head(rc.items).id /\ j.done
  /\ file = Saved(store_keys, data)

\* C26, as it is claimed: an item that is done is in get_history(key, limit),
\* whatever the limit
C26_DoneStaysInHistory ==
  \A k \in Keys, limit \in Limits : \A i \in Items(data[k]) :
    i.done => i \in Items(get_history(data[k], limit))

\* h is limit of the done items of items, or all of them when they are
\* fewer, none done earlier than a done item that is left out
RecentDone(items, h, limit) ==
  /\ Len(h) = IF get_done_count(items) < limit THEN get_done_count(items) ELSE limit
  /\ \A p \in 1..Len(h) : h[p].done /\ h[p] \in Items(items)
  /\ \A i \in Items(items) \ Items(h) :
       i.done => \A p \in 1..Len(h) : h[p].done_at >= i.done_at

\* C26: done is monotone and the done and the undone items partition the
\* store.  After any sequence of add_todo, mark_done, delete_todo,
\* clear_done, set_custom_reminder and set_reminded, on every key the undone
\* count and the done count are the number of the stored items, and
\* get_history(key, limit) is the done items when they are limit at most, and
\* else limit of them, none done earlier than a done item that is left out.
\* In every step an item that was done is not in get_todos afterwards, and is
\* still stored and done unless the step was clear_done on its key.
\* clear_done stores get_todos of what was stored, so the undone items in
\* their order, and returns the number of the done items.
C26_DonePartitionsStore ==
  /\ [](\A k \in Keys :
         /\ get_undone_count(data[k]) + get_done_count(data[k]) = Len(data[k])
         /\ Len(get_todos(data[k])) = get_undone_count(data[k])
         /\ \A limit \in Limits :
              RecentDone(data[k], get_history(data[k], limit), limit))
  /\ [][/\ \A k \in Keys : data'[k] # data[k] =>
            \A i \in Items(data[k]) : i.done =>
              /\ \A j \in Items(get_todos(data'[k])) : j.id # i.id
              /\ \/ \E j \in Items(data'[k]) :
                      j.id = i.id /\ j.done /\ j.done_at = i.done_at
                 \/ cleared' # {} /\ data'[k] = get_todos(data[k])
        /\ cleared' # {} =>
             \E k \in Keys :
               /\ cleared' = {get_done_count(data[k])}
               /\ data' = [data EXCEPT ![k] = get_todos(data[k])]
               /\ get_todos(data'[k]) = get_todos(data[k])
               /\ \A i \in Items(data'[k]) : ~i.done]_vars

\* two todos of a key are done, the one that was added first last: asked for
\* one item get_history returns that one, and the other is done and stored
\* but not in it
C26_EarlierDoneLeftOutOfHistory ==
  \E k \in Keys :
    /\ Len(data[k]) = 2
    /\ data[k][1].done /\ data[k][2].done
    /\ data[k][1].done_at > data[k][2].done_at
    /\ get_history(data[k], 1) = <<data[k][1]>>
    /\ get_history(data[k], HistoryLimit) = data[k]
    /\ get_undone_count(data[k]) = 0 /\ get_done_count(data[k]) = 2

====
